---- MODULE Spec2Model ----
(***************************************************************************)
(* GateKeeper: an HTTP gateway that rate-limits inbound requests, selects  *)
(* a healthy backend and proxies to it.                                    *)
(*                                                                         *)
(* Ten specifications share the definitions of this module:                *)
(*   SpecLB  the LoadBalancer object driven through its exported methods   *)
(*           (internal/loadbalancer/loadbalancer.go), as its unit tests    *)
(*           drive it;                                                     *)
(*   Spec    the gateway: request tasks running the handler chain of       *)
(*           Gateway.Handler, the rate limiter, the router, the health and *)
(*           proxy handlers and the health probes                          *)
(*           (internal/gateway, internal/middleware);                      *)
(*   SpecHC  the gateway's health checks step by step: the probe, the      *)
(*           registry write and the gauge write of checkBackendHealth;     *)
(*   SpecRW  one metrics.ResponseWriter under every short sequence of      *)
(*           WriteHeader and Write calls (internal/metrics/metrics.go);    *)
(*   SpecLC  a LoadBalancer set to least_connections and clients that hold *)
(*           a connection to the backend NextBackend gave them;            *)
(*   SpecCC  goroutines calling the LoadBalancer's methods at the same     *)
(*           time, each method split at its reads and writes under lb.mu;  *)
(*   SpecFW  one request rewritten by proxyHandler for the backend;        *)
(*   SpecPL  the probing loop: ticks and the goroutines they start, those  *)
(*           of two ticks running at the same time;                        *)
(*   SpecGL  gw.mu and lb.mu taken by /health requests, proxied requests,  *)
(*           ticks and probe goroutines;                                   *)
(*   SpecRR  NextBackend called without end under round_robin, across the  *)
(*           reset of the cursor.                                          *)
(***************************************************************************)
EXTENDS Integers, Sequences, FiniteSets, TLC

(***************************************************************************)
(* Bounds of the model.                                                    *)
(***************************************************************************)
\* longest backend list handed to loadbalancer.New
MaxBackends == 3
\* how many cursor values are explored on each side of the cursor reset
MaxSteps == 2
\* longest backend list of the gateway's configuration
MaxGwBackends == 2
\* largest config.RateLimit.BurstSize
MaxBurst == 1
\* how many WriteHeader and Write calls a handler makes on one response
MaxCalls == 4
\* how many selections the clients of a least_connections balancer make
MaxDispatches == 3

(***************************************************************************)
(* Program constants.                                                      *)
(***************************************************************************)
\* loadbalancer.go:79   if lb.currentIndex >= 1000000 { lb.currentIndex = 0 }
CursorWrap == 1000000

AlgorithmNames ==
    {"round_robin", "weighted_round_robin", "random", "least_connections"}

\* names SetAlgorithm is called with: the valid ones and two others
AlgorithmInputs == AlgorithmNames \cup {"invalid_algorithm", ""}

\* config.Backend values the backend lists are built from.  New validates
\* neither names nor weights, so the pool holds a repeated name, a zero
\* weight and a negative weight.
BackendPool ==
    { [Name |-> "backend1", Weight |-> 2, UrlOk |-> TRUE],
      [Name |-> "backend2", Weight |-> 1, UrlOk |-> TRUE],
      [Name |-> "backend2", Weight |-> 0, UrlOk |-> TRUE],
      [Name |-> "backend3", Weight |-> -1, UrlOk |-> TRUE] }

\* names SetBackendHealth is called with: the configured ones and a stranger
HealthNames == {"backend1", "backend2", "backend3", "ghost"}

VARIABLES
    backends,       \* lb.backends: sequence of [Name, Weight, UrlOk, Healthy]
    currentIndex,   \* lb.currentIndex
    algorithm,      \* lb.algorithm
    call,           \* the last LoadBalancer method called and what it returned
    downed,         \* registered names whose latest SetBackendHealth call
                    \* passed false
    requests,       \* per request task: where it is in the handler chain
    burst,          \* config.RateLimit.BurstSize
    tokens,         \* whole tokens the limiter holds
    refilled,       \* whether a token has accrued since the limiter was built
    probe,          \* per configured backend: the checkBackendHealth
                    \* goroutine probing it
    gauge,          \* the backendUp gauge: per name 1, 0, or -1 while the
                    \* name has no series
    rw,             \* a metrics.ResponseWriter around a response, and the
                    \* calls made through it
    active,         \* per registry entry: the requests a client has sent to
                    \* it and not yet seen answered
    cc,             \* lb.mu and the goroutines calling the LoadBalancer's
                    \* methods at the same time
    fw,             \* one request in proxyHandler, before and after the
                    \* rewrite for the backend
    loop,           \* the probing loop: its ticks and the goroutines they
                    \* started
    gl,             \* gw.mu, lb.mu and the goroutines that take them
    gap             \* per registry entry: selections of other entries
                    \* since it was last selected

lbVars == <<backends, currentIndex, algorithm, call, downed>>
gwVars == <<requests, burst, tokens, refilled>>
hcVars == <<probe, gauge>>
rwVars == <<rw>>
lcVars == <<active>>
ccVars == <<cc>>
fwVars == <<fw>>
plVars == <<loop>>
glVars == <<gl>>
rrVars == <<gap>>
vars == <<backends, currentIndex, algorithm, call, downed,
          requests, burst, tokens, refilled, probe, gauge, rw, active, cc,
          fw, loop, gl, gap>>

(***************************************************************************)
(* Helpers.                                                                *)
(***************************************************************************)
SeqsUpTo(S, n) == UNION { [1..k -> S] : k \in 0..n }

NoRet == [kind |-> "none", idx |-> 0, draw |-> -1, fallback |-> FALSE]
\* the arguments of the last call: the name handed to SetBackendHealth or
\* SetAlgorithm and the flag handed to SetBackendHealth
NoArg == [name |-> "", healthy |-> FALSE]
\* what the last call returned when it was not GetStats
NoStats == [total_backends |-> -1, healthy_backends |-> -1,
            unhealthy_backends |-> -1, algorithm |-> "", backends |-> <<>>]
\* the last call: the method, what NextBackend returned, the arguments, what
\* GetStats returned, and the slice GetHealthyBackends returned (positions in
\* lb.backends of the entries it points to)
NoCall == [op |-> "none", ret |-> NoRet, arg |-> NoArg, stats |-> NoStats,
           snapshot |-> <<>>]

\* cursor values the model explores: a stretch after construction / after a
\* reset, and a stretch before the reset, up to the value at which the reset
\* is due
CursorWindow == (0..MaxSteps) \cup ((CursorWrap - MaxSteps)..CursorWrap)

(***************************************************************************)
(* loadbalancer.New                                                        *)
(***************************************************************************)
\* a constructor that waits for the first probe before it trusts a backend
NewUnhealthy(cfg) ==
    [i \in 1..Len(cfg) |->
        [Name |-> cfg[i].Name, Weight |-> cfg[i].Weight,
         UrlOk |-> cfg[i].UrlOk, Healthy |-> FALSE]]

New(cfg) ==
    [i \in 1..Len(cfg) |->
        [Name |-> cfg[i].Name, Weight |-> cfg[i].Weight,
         UrlOk |-> cfg[i].UrlOk, Healthy |-> TRUE]]

(***************************************************************************)
(* getHealthyBackendsLocked: the healthy entries, in registration order.   *)
(* An entry (a BackendStatus) is identified by its position in lb.backends.  *)
(***************************************************************************)
RECURSIVE HealthyFrom(_, _)
HealthyFrom(bs, i) ==
    IF i > Len(bs) THEN <<>>
    ELSE (IF bs[i].Healthy THEN <<i>> ELSE <<>>) \o HealthyFrom(bs, i + 1)

\* a snapshot that forgets to test the Healthy flag
getAllBackendsLocked(bs) == [i \in 1..Len(bs) |-> i]

getHealthyBackendsLocked(bs) == HealthyFrom(bs, 1)

(***************************************************************************)
(* roundRobin: the entry at cursor mod len, the cursor advanced and reset. *)
(***************************************************************************)
\* a reset that comes one selection late
NextCursorLate(cur) == IF cur + 1 > CursorWrap THEN 0 ELSE cur + 1

NextCursor(cur) == IF cur + 1 >= CursorWrap THEN 0 ELSE cur + 1

\* a rotation that hands out the first healthy entry whatever the cursor
roundRobinFirst(h, cur) ==
    IF Len(h) = 0
    THEN [ret |-> [kind |-> "nil", idx |-> 0, draw |-> -1, fallback |-> FALSE],
          cursor |-> cur]
    ELSE [ret |-> [kind |-> "backend", idx |-> h[1],
                   draw |-> -1, fallback |-> FALSE],
          cursor |-> NextCursor(cur)]

roundRobin(h, cur) ==
    IF Len(h) = 0
    THEN [ret |-> [kind |-> "nil", idx |-> 0, draw |-> -1, fallback |-> FALSE],
          cursor |-> cur]
    ELSE [ret |-> [kind |-> "backend", idx |-> h[(cur % Len(h)) + 1],
                   draw |-> -1, fallback |-> FALSE],
          cursor |-> NextCursor(cur)]

\* the entries k consecutive roundRobin calls on snapshot h return, from
\* cursor cur on
RECURSIVE RoundRobinRun(_, _, _)
RoundRobinRun(h, cur, k) ==
    IF k = 0 THEN <<>>
    ELSE LET step == roundRobin(h, cur) IN
         <<step.ret.idx>> \o RoundRobinRun(h, step.cursor, k - 1)

(***************************************************************************)
(* weightedRoundRobin                                                      *)
(***************************************************************************)
RECURSIVE SumWeights(_, _, _)
\* the weights of the first k entries of snapshot h
SumWeights(bs, h, k) ==
    IF k = 0 THEN 0 ELSE SumWeights(bs, h, k - 1) + bs[h[k]].Weight

TotalWeight(bs, h) == SumWeights(bs, h, Len(h))

RECURSIVE AccumulateInclusive(_, _, _, _)
\* the accumulation loop with the comparison "draw <= running weight"
AccumulateInclusive(bs, h, r, k) ==
    IF k > Len(h) THEN 0
    ELSE IF r <= SumWeights(bs, h, k) THEN k
    ELSE AccumulateInclusive(bs, h, r, k + 1)

RECURSIVE Accumulate(_, _, _, _)
\* the accumulation loop from position k on: the position of the first entry
\* whose running weight exceeds the draw, 0 when the loop ends without one
Accumulate(bs, h, r, k) ==
    IF k > Len(h) THEN 0
    ELSE IF r < SumWeights(bs, h, k) THEN k
    ELSE Accumulate(bs, h, r, k + 1)

\* rand.Intn(n) panics for n <= 0 and returns a value of 0..n-1 otherwise
IntnPanics(n) == n <= 0
Intn(n) == 0..(n - 1)

\* a weighted pick that hands out the first healthy entry when the total
\* weight is zero, without touching the cursor
weightedFirstOnZero(bs, h, cur, r) ==
    IF Len(h) = 0
    THEN [ret |-> [kind |-> "nil", idx |-> 0, draw |-> -1, fallback |-> FALSE],
          cursor |-> cur]
    ELSE IF TotalWeight(bs, h) <= 0
    THEN [ret |-> [kind |-> "backend", idx |-> h[1], draw |-> -1,
                   fallback |-> FALSE],
          cursor |-> cur]
    ELSE LET k == Accumulate(bs, h, r, 1) IN
         [ret |-> [kind |-> "backend", idx |-> h[IF k # 0 THEN k ELSE 1],
                   draw |-> r, fallback |-> k = 0],
          cursor |-> cur]

weightedRoundRobin(bs, h, cur, r) ==
    IF Len(h) = 0
    THEN [ret |-> [kind |-> "nil", idx |-> 0, draw |-> -1, fallback |-> FALSE],
          cursor |-> cur]
    ELSE IF TotalWeight(bs, h) = 0 THEN roundRobin(h, cur)
    ELSE IF IntnPanics(TotalWeight(bs, h))
    THEN [ret |-> [kind |-> "panic", idx |-> 0, draw |-> -1, fallback |-> FALSE],
          cursor |-> cur]
    ELSE LET k == Accumulate(bs, h, r, 1) IN
         IF k # 0
         THEN [ret |-> [kind |-> "backend", idx |-> h[k], draw |-> r,
                        fallback |-> FALSE],
               cursor |-> cur]
         ELSE [ret |-> [kind |-> "backend", idx |-> h[1], draw |-> r,
                        fallback |-> TRUE],
               cursor |-> cur]

(***************************************************************************)
(* randomBackend                                                           *)
(***************************************************************************)
\* a random pick that also moves the cursor on
randomBackendAdvancing(h, cur, r) ==
    IF Len(h) = 0
    THEN [ret |-> [kind |-> "nil", idx |-> 0, draw |-> -1, fallback |-> FALSE],
          cursor |-> cur]
    ELSE [ret |-> [kind |-> "backend", idx |-> h[r + 1], draw |-> r,
                   fallback |-> FALSE],
          cursor |-> NextCursor(cur)]

randomBackend(h, cur, r) ==
    IF Len(h) = 0
    THEN [ret |-> [kind |-> "nil", idx |-> 0, draw |-> -1, fallback |-> FALSE],
          cursor |-> cur]
    ELSE [ret |-> [kind |-> "backend", idx |-> h[r + 1], draw |-> r,
                   fallback |-> FALSE],
          cursor |-> cur]

(***************************************************************************)
(* NextBackend: the result and the new cursor, for random draw r.          *)
(***************************************************************************)
\* the values the random source can hand to this call
Draws(bs, alg) ==
    LET h == getHealthyBackendsLocked(bs) IN
    IF Len(h) = 0 THEN {-1}
    ELSE IF alg = "weighted_round_robin"
         THEN (IF TotalWeight(bs, h) > 0 THEN Intn(TotalWeight(bs, h)) ELSE {-1})
    ELSE IF alg = "random" THEN Intn(Len(h))
    ELSE {-1}

\* a selection whose least_connections case hands out the first healthy
\* entry
NextBackendLeastFirst(bs, alg, cur, r) ==
    LET healthyBackends == getHealthyBackendsLocked(bs) IN
    IF Len(healthyBackends) = 0
    THEN [ret |-> [kind |-> "nil", idx |-> 0, draw |-> -1, fallback |-> FALSE],
          cursor |-> cur]
    ELSE IF alg = "weighted_round_robin"
         THEN weightedRoundRobin(bs, healthyBackends, cur, r)
    ELSE IF alg = "random" THEN randomBackend(healthyBackends, cur, r)
    ELSE IF alg = "least_connections"
         THEN [ret |-> [kind |-> "backend", idx |-> healthyBackends[1],
                        draw |-> -1, fallback |-> FALSE],
               cursor |-> cur]
    ELSE roundRobin(healthyBackends, cur)

NextBackendResult(bs, alg, cur, r) ==
    LET healthyBackends == getHealthyBackendsLocked(bs) IN
    IF Len(healthyBackends) = 0
    THEN [ret |-> [kind |-> "nil", idx |-> 0, draw |-> -1, fallback |-> FALSE],
          cursor |-> cur]
    ELSE IF alg = "weighted_round_robin"
         THEN weightedRoundRobin(bs, healthyBackends, cur, r)
    ELSE IF alg = "random" THEN randomBackend(healthyBackends, cur, r)
    ELSE IF alg = "least_connections" THEN roundRobin(healthyBackends, cur)
    ELSE roundRobin(healthyBackends, cur)

(***************************************************************************)
(* SetBackendHealth: the first entry called name gets the flag.            *)
(***************************************************************************)
RECURSIVE FindByName(_, _, _)
\* position of the first entry called name from position i on, 0 if none
FindByName(bs, name, i) ==
    IF i > Len(bs) THEN 0
    ELSE IF bs[i].Name = name THEN i
    ELSE FindByName(bs, name, i + 1)

\* an update that flips the flag of the entry it finds
SetBackendHealthToggle(bs, name, healthy) ==
    LET i == FindByName(bs, name, 1) IN
    IF i = 0 THEN bs ELSE [bs EXCEPT ![i].Healthy = ~@]

\* an update that does not compare names: the first entry gets the flag
SetBackendHealthFirst(bs, name, healthy) ==
    IF Len(bs) = 0 THEN bs ELSE [bs EXCEPT ![1].Healthy = healthy]

SetBackendHealthResult(bs, name, healthy) ==
    LET i == FindByName(bs, name, 1) IN
    IF i = 0 THEN bs
    ELSE IF bs[i].Healthy # healthy
         THEN [bs EXCEPT ![i].Healthy = healthy]
    ELSE bs

(***************************************************************************)
(* SetAlgorithm                                                            *)
(***************************************************************************)
\* a setter that stores whatever name it is handed
SetAlgorithmUnchecked(a) == a

SetAlgorithmResult(a) ==
    IF a \notin AlgorithmNames THEN "round_robin" ELSE a

(***************************************************************************)
(* GetStats: the map it returns, built under one read lock.                *)
(***************************************************************************)
\* statistics that take the length of the list for the healthy count
GetStatsCountAll(bs, alg) ==
    [total_backends |-> Len(bs),
     healthy_backends |-> Len(bs),
     unhealthy_backends |-> 0,
     algorithm |-> alg,
     backends |-> [i \in 1..Len(bs) |->
                     [name |-> bs[i].Name, url |-> bs[i].UrlOk,
                      healthy |-> bs[i].Healthy, weight |-> bs[i].Weight]]]

GetStatsResult(bs, alg) ==
    LET totalBackends == Len(bs)
        healthyBackends == Len(getHealthyBackendsLocked(bs))
    IN
    [total_backends |-> totalBackends,
     healthy_backends |-> healthyBackends,
     unhealthy_backends |-> totalBackends - healthyBackends,
     algorithm |-> alg,
     backends |-> [i \in 1..Len(bs) |->
                     [name |-> bs[i].Name, url |-> bs[i].UrlOk,
                      healthy |-> bs[i].Healthy, weight |-> bs[i].Weight]]]

(***************************************************************************)
(* The LoadBalancer's methods as actions.  Each runs under lb.mu, so it is *)
(* one atomic step.                                                        *)
(***************************************************************************)
NextBackend ==
    \E r \in Draws(backends, algorithm) :
        LET res == NextBackendResult(backends, algorithm, currentIndex, r) IN
        /\ res.cursor \in CursorWindow
        /\ currentIndex' = res.cursor
        /\ call' = [op |-> "NextBackend", ret |-> res.ret, arg |-> NoArg,
                     stats |-> NoStats, snapshot |-> <<>>]
        /\ UNCHANGED <<backends, algorithm, downed>>
        /\ UNCHANGED gwVars
        /\ UNCHANGED hcVars
        /\ UNCHANGED rwVars
        /\ UNCHANGED lcVars
        /\ UNCHANGED ccVars
        /\ UNCHANGED fwVars
        /\ UNCHANGED plVars
        /\ UNCHANGED glVars
        /\ UNCHANGED rrVars

SetBackendHealth ==
    \E name \in HealthNames, healthy \in BOOLEAN :
        /\ backends' = SetBackendHealthResult(backends, name, healthy)
        /\ downed' = IF FindByName(backends, name, 1) = 0 THEN downed
                      ELSE IF healthy THEN downed \ {name}
                      ELSE downed \cup {name}
        /\ call' = [op |-> "SetBackendHealth", ret |-> NoRet,
                     arg |-> [name |-> name, healthy |-> healthy],
                     stats |-> NoStats, snapshot |-> <<>>]
        /\ UNCHANGED <<currentIndex, algorithm>>
        /\ UNCHANGED gwVars
        /\ UNCHANGED hcVars
        /\ UNCHANGED rwVars
        /\ UNCHANGED lcVars
        /\ UNCHANGED ccVars
        /\ UNCHANGED fwVars
        /\ UNCHANGED plVars
        /\ UNCHANGED glVars
        /\ UNCHANGED rrVars

SetAlgorithm ==
    \E a \in AlgorithmInputs :
        /\ algorithm' = SetAlgorithmResult(a)
        /\ call' = [op |-> "SetAlgorithm", ret |-> NoRet,
                     arg |-> [name |-> a, healthy |-> FALSE],
                     stats |-> NoStats, snapshot |-> <<>>]
        /\ UNCHANGED <<backends, currentIndex, downed>>
        /\ UNCHANGED gwVars
        /\ UNCHANGED hcVars
        /\ UNCHANGED rwVars
        /\ UNCHANGED lcVars
        /\ UNCHANGED ccVars
        /\ UNCHANGED fwVars
        /\ UNCHANGED plVars
        /\ UNCHANGED glVars
        /\ UNCHANGED rrVars

\* GetStats holds lb.mu.RLock from its first line to its return, and the
\* setters take lb.mu.Lock: no setter runs between two of its reads
GetStats ==
    /\ call' = [op |-> "GetStats", ret |-> NoRet, arg |-> NoArg,
                stats |-> GetStatsResult(backends, algorithm),
                snapshot |-> <<>>]
    /\ UNCHANGED <<backends, currentIndex, algorithm, downed>>
    /\ UNCHANGED gwVars
    /\ UNCHANGED hcVars
    /\ UNCHANGED rwVars
    /\ UNCHANGED lcVars
    /\ UNCHANGED ccVars
    /\ UNCHANGED fwVars
    /\ UNCHANGED plVars
    /\ UNCHANGED glVars
    /\ UNCHANGED rrVars

\* GetHealthyBackends: getHealthyBackendsLocked under lb.mu.RLock
GetHealthyBackends ==
    /\ call' = [op |-> "GetHealthyBackends", ret |-> NoRet, arg |-> NoArg,
                stats |-> NoStats,
                snapshot |-> getHealthyBackendsLocked(backends)]
    /\ UNCHANGED <<backends, currentIndex, algorithm, downed>>
    /\ UNCHANGED gwVars
    /\ UNCHANGED hcVars
    /\ UNCHANGED rwVars
    /\ UNCHANGED lcVars
    /\ UNCHANGED ccVars
    /\ UNCHANGED fwVars
    /\ UNCHANGED plVars
    /\ UNCHANGED glVars
    /\ UNCHANGED rrVars

(***************************************************************************)
(* The gateway.                                                            *)
(*                                                                         *)
(* A request task runs the chain built by Gateway.Handler: logging, then   *)
(* metrics, then the rate limiter, then the router and the handler the     *)
(* router picks.  A task's step ends where it next touches state shared    *)
(* with other tasks (the limiter, the registry) or blocks on the backend.  *)
(***************************************************************************)
\* the request tasks in flight at the gateway
Tasks == {"t1", "t2"}

Methods == {"GET", "POST"}
Paths == {"/health", "/metrics", "/api"}

\* statuses the reverse proxy can write: the backend's answer, or 502 when
\* the exchange with the backend fails
BackendStatuses == {200, 502}

\* config.Backend values of the gateway's configuration: two names, one of
\* them also with a target that url.Parse rejects
GatewayPool ==
    { [Name |-> "backend1", Weight |-> 50, UrlOk |-> TRUE],
      [Name |-> "backend2", Weight |-> 50, UrlOk |-> TRUE],
      [Name |-> "backend2", Weight |-> 50, UrlOk |-> FALSE] }

NoBody == [status |-> "", healthy_backends |-> -1]

\* metrics.RecordRequest, metrics.RecordBackendRequest, metrics.RecordRateLimit
\* and the logging layer's "HTTP Request" record as the events a request
\* emits, with the layer that emitted them; status is the label string
\* an outcome that always carries the label "none"
RecordRequestNone(by, status, backend) ==
    [by |-> by, kind |-> "request", status |-> status, backend |-> "none"]
RecordRequest(by, status, backend) ==
    [by |-> by, kind |-> "request", status |-> status, backend |-> backend]
\* a backend outcome that always carries the status "200"
RecordBackendRequestOk(backend, status) ==
    [by |-> "proxy", kind |-> "backend", status |-> "200", backend |-> backend]
RecordBackendRequest(backend, status) ==
    [by |-> "proxy", kind |-> "backend", status |-> status, backend |-> backend]
RecordRateLimit ==
    [by |-> "ratelimit", kind |-> "rate_limited", status |-> "", backend |-> ""]
LogRequest(status) ==
    [by |-> "logging", kind |-> "log", status |-> status, backend |-> ""]

(***************************************************************************)
(* metrics.ResponseWriter: an http.ResponseWriter embedded in a struct     *)
(* with a statusCode.  WriteHeader stores the code and passes it on; Write *)
(* is the embedded writer's own.  The writer at the bottom is net/http's   *)
(* response: its first WriteHeader fixes the status that is sent, later    *)
(* ones are dropped, and a Write before any WriteHeader sends 200.         *)
(***************************************************************************)
\* statuses handlers write
RwCodes == {200, 404, 500}

CallWriteHeader(code) == [fn |-> "WriteHeader", code |-> code]
CallWrite == [fn |-> "Write", code |-> 0]

\* net/http's response before anything is written: received holds the calls
\* that reached it
BaseWriter == [wroteHeader |-> FALSE, status |-> 0, received |-> <<>>]

BaseWriteHeader(w, code) ==
    IF w.wroteHeader
    THEN [w EXCEPT !.received = Append(@, CallWriteHeader(code))]
    ELSE [w EXCEPT !.wroteHeader = TRUE, !.status = code,
                   !.received = Append(@, CallWriteHeader(code))]

BaseWrite(w) ==
    IF w.wroteHeader
    THEN [w EXCEPT !.received = Append(@, CallWrite)]
    ELSE [w EXCEPT !.wroteHeader = TRUE, !.status = 200,
                   !.received = Append(@, CallWrite)]

NewResponseWriter(w) == [statusCode |-> 200, ResponseWriter |-> w]

IsInterceptor(w) == "statusCode" \in DOMAIN w

RECURSIVE WriteHeaderForget(_, _)
\* an interceptor that passes the code on without storing it
WriteHeaderForget(w, code) ==
    IF IsInterceptor(w)
    THEN [w EXCEPT !.ResponseWriter = WriteHeaderForget(@, code)]
    ELSE BaseWriteHeader(w, code)

RECURSIVE WriteHeaderResult(_, _)
\* (rw *ResponseWriter) WriteHeader, or the bottom writer's
WriteHeaderResult(w, code) ==
    IF IsInterceptor(w)
    THEN [statusCode |-> code,
          ResponseWriter |-> WriteHeaderResult(w.ResponseWriter, code)]
    ELSE BaseWriteHeader(w, code)

RECURSIVE WriteResult(_)
\* Write, promoted from the embedded writer
WriteResult(w) ==
    IF IsInterceptor(w)
    THEN [w EXCEPT !.ResponseWriter = WriteResult(@)]
    ELSE BaseWrite(w)

\* strconv.Itoa for a non-negative int
Digit(d) ==
    CASE d = 0 -> "0" [] d = 1 -> "1" [] d = 2 -> "2" [] d = 3 -> "3"
      [] d = 4 -> "4" [] d = 5 -> "5" [] d = 6 -> "6" [] d = 7 -> "7"
      [] d = 8 -> "8" [] d = 9 -> "9"

RECURSIVE Itoa(_)
Itoa(n) == IF n < 10 THEN Digit(n) ELSE Itoa(n \div 10) \o Digit(n % 10)

\* (rw *ResponseWriter) StatusCode
StatusCode(w) == Itoa(w.statusCode)

RECURSIVE Bottom(_)
\* the net/http response under a stack of interceptors
Bottom(w) == IF IsInterceptor(w) THEN Bottom(w.ResponseWriter) ELSE w

RECURSIVE Issue(_, _)
\* writer w after the calls of a sequence, in order
Issue(w, calls) ==
    IF calls = <<>> THEN w
    ELSE LET c == Head(calls) IN
         Issue(IF c.fn = "WriteHeader" THEN WriteHeaderResult(w, c.code)
               ELSE WriteResult(w),
               Tail(calls))

\* http.Error(w, text, code): the header with the code, then the text
HttpError(code) == <<CallWriteHeader(code), CallWrite>>

\* the writer the rate limiter and the router are handed: the metrics
\* layer's ResponseWriter around the logging layer's around the response
ChainWriter == NewResponseWriter(NewResponseWriter(BaseWriter))

\* a request task before its request arrives; w is the writer its handlers
\* write to, status the status put on the wire
IdleRequest ==
    [pc |-> "idle", method |-> "", path |-> "", gate |-> "none",
     inner |-> FALSE, handler |-> "none", status |-> 0, retryAfter |-> "",
     body |-> NoBody, backend |-> 0, selections |-> 0, forwards |-> 0,
     events |-> <<>>, w |-> ChainWriter]

\* the request after its handler made the calls on its writer
Respond(req, calls) ==
    LET out == Issue(req.w, calls) IN
    [req EXCEPT !.w = out, !.status = Bottom(out).status]

\* a handler's calls on a ResponseWriter, one per step
WriteHeader ==
    /\ Len(rw.issued) < MaxCalls
    /\ \E code \in RwCodes :
        rw' = [w |-> WriteHeaderResult(rw.w, code),
               issued |-> Append(rw.issued, CallWriteHeader(code))]
    /\ UNCHANGED lbVars
    /\ UNCHANGED gwVars
    /\ UNCHANGED hcVars
    /\ UNCHANGED lcVars
    /\ UNCHANGED ccVars
    /\ UNCHANGED fwVars
    /\ UNCHANGED plVars
    /\ UNCHANGED glVars
    /\ UNCHANGED rrVars

Write ==
    /\ Len(rw.issued) < MaxCalls
    /\ rw' = [w |-> WriteResult(rw.w), issued |-> Append(rw.issued, CallWrite)]
    /\ UNCHANGED lbVars
    /\ UNCHANGED gwVars
    /\ UNCHANGED hcVars
    /\ UNCHANGED lcVars
    /\ UNCHANGED ccVars
    /\ UNCHANGED fwVars
    /\ UNCHANGED plVars
    /\ UNCHANGED glVars
    /\ UNCHANGED rrVars

(***************************************************************************)
(* rate.Limiter (golang.org/x/time/rate) as NewRateLimiter builds it: it   *)
(* starts with burst tokens, Allow takes one token when one is there, and  *)
(* time adds tokens up to burst.                                           *)
(***************************************************************************)
\* a limiter that also admits with an empty bucket
AllowAlways(tok) == tok >= 0

Allow(tok) == tok >= 1

\* only the liveness path is exempt
ExemptHealthOnly(path) == path = "/health"

\* RateLimitMiddleware.Wrap: the paths that skip the limiter
ExemptPath(path) == path = "/health" \/ path = "/metrics"

(***************************************************************************)
(* setupRoutes, as gorilla/mux matches: /health and /metrics are routes    *)
(* for GET only; PathPrefix("/") takes every request no earlier route took.*)
(***************************************************************************)
Route(method, path) ==
    IF path = "/health" /\ method = "GET" THEN "health"
    ELSE IF path = "/metrics" /\ method = "GET" THEN "metrics"
    ELSE "proxy"

(***************************************************************************)
(* MetricsMiddleware.Wrap: once the inner handler has returned, one        *)
(* request outcome labelled "gateway", except for the path /metrics.       *)
(***************************************************************************)
MetricsWrap(req) ==
    IF req.path # "/metrics"
    THEN [req EXCEPT !.events =
                        Append(@, RecordRequest("metrics_mw", StatusCode(req.w),
                                                "gateway"))]
    ELSE req

(***************************************************************************)
(* LoggingMiddleware.Wrap: once the metrics layer has returned, one log    *)
(* record with the status its own ResponseWriter holds.                    *)
(***************************************************************************)
LoggingWrap(req) ==
    [req EXCEPT !.events = Append(@, LogRequest(StatusCode(req.w.ResponseWriter)))]

\* the chain unwinds: the metrics layer, then the logging layer
Unwind(req) == LoggingWrap(MetricsWrap(req))

(***************************************************************************)
(* healthHandler: status and body from one GetHealthyBackends snapshot.    *)
(***************************************************************************)
\* a handler that counts every entry, healthy or not
healthHandlerAll(bs) ==
    LET n == Len(bs) IN
    [calls |-> IF n = 0 THEN <<CallWriteHeader(503), CallWrite>>
               ELSE <<CallWrite>>,
     body |-> [status |-> IF n = 0 THEN "unhealthy" ELSE "healthy",
               healthy_backends |-> n]]

healthHandler(bs) ==
    LET n == Len(getHealthyBackendsLocked(bs)) IN
    [calls |-> IF n = 0 THEN <<CallWriteHeader(503), CallWrite>>
               ELSE <<CallWrite>>,
     body |-> [status |-> IF n = 0 THEN "unhealthy" ELSE "healthy",
               healthy_backends |-> n]]

(***************************************************************************)
(* RateLimitMiddleware.Wrap when Allow says no: the event, the header, the *)
(* 429, and no call of the next handler.                                   *)
(***************************************************************************)
\* a rejection that answers 429 and then still calls the next handler
RejectAndContinue(req) ==
    [Respond(req, HttpError(429))
        EXCEPT !.gate = "rejected",
               !.events = Append(@, RecordRateLimit),
               !.retryAfter = "60",
               !.inner = TRUE,
               !.pc = "done"]

\* a rejection that answers 503 Service Unavailable
RejectUnavailable(req) ==
    [Respond(req, HttpError(503))
        EXCEPT !.gate = "rejected",
               !.events = Append(@, RecordRateLimit),
               !.retryAfter = "60",
               !.pc = "done"]

\* a rejection that answers 429 and leaves the request with the router
RejectThenRoute(req) ==
    [Respond(req, HttpError(429))
        EXCEPT !.gate = "rejected",
               !.events = Append(@, RecordRateLimit),
               !.retryAfter = "60",
               !.inner = TRUE,
               !.handler = Route(req.method, req.path),
               !.pc = "routed"]

Reject(req) ==
    [Respond(req, HttpError(429))
        EXCEPT !.gate = "rejected",
               !.events = Append(@, RecordRateLimit),
               !.retryAfter = "60",
               !.pc = "done"]

(***************************************************************************)
(* Serve: a request arrives and runs up to and through the rate limiter.   *)
(***************************************************************************)
Serve(t) ==
    /\ requests[t].pc = "idle"
    /\ \E m \in Methods, p \in Paths :
        LET arrived == [requests[t] EXCEPT !.method = m, !.path = p] IN
        IF ExemptPath(p)
        THEN /\ requests' = [requests EXCEPT ![t] =
                    [arrived EXCEPT !.gate = "exempt", !.inner = TRUE,
                                    !.handler = Route(m, p), !.pc = "routed"]]
             /\ UNCHANGED tokens
        ELSE IF Allow(tokens)
        THEN /\ tokens' = tokens - 1
             /\ requests' = [requests EXCEPT ![t] =
                    [arrived EXCEPT !.gate = "allowed", !.inner = TRUE,
                                    !.handler = Route(m, p), !.pc = "routed"]]
        ELSE /\ requests' = [requests EXCEPT ![t] = Unwind(Reject(arrived))]
             /\ UNCHANGED tokens
    /\ UNCHANGED <<burst, refilled>>
    /\ UNCHANGED lbVars
    /\ UNCHANGED hcVars
    /\ UNCHANGED rwVars
    /\ UNCHANGED lcVars
    /\ UNCHANGED ccVars
    /\ UNCHANGED fwVars
    /\ UNCHANGED plVars
    /\ UNCHANGED glVars
    /\ UNCHANGED rrVars

(***************************************************************************)
(* Handle: the handler the router picked runs.  healthHandler and the      *)
(* metrics handler answer at once; proxyHandler asks NextBackend and       *)
(* either answers 503 or 500 or goes on to forward.                        *)
(***************************************************************************)
HandleHealth(t) ==
    /\ requests[t].pc = "routed"
    /\ requests[t].handler = "health"
    /\ LET h == healthHandler(backends) IN
       requests' = [requests EXCEPT ![t] =
            Unwind([Respond(@, h.calls) EXCEPT !.body = h.body, !.pc = "done"])]
    /\ UNCHANGED <<burst, tokens, refilled>>
    /\ UNCHANGED lbVars
    /\ UNCHANGED hcVars
    /\ UNCHANGED rwVars
    /\ UNCHANGED lcVars
    /\ UNCHANGED ccVars
    /\ UNCHANGED fwVars
    /\ UNCHANGED plVars
    /\ UNCHANGED glVars
    /\ UNCHANGED rrVars

HandleMetrics(t) ==
    /\ requests[t].pc = "routed"
    /\ requests[t].handler = "metrics"
    /\ requests' = [requests EXCEPT ![t] =
            Unwind([Respond(@, <<CallWrite>>) EXCEPT !.pc = "done"])]
    /\ UNCHANGED <<burst, tokens, refilled>>
    /\ UNCHANGED lbVars
    /\ UNCHANGED hcVars
    /\ UNCHANGED rwVars
    /\ UNCHANGED lcVars
    /\ UNCHANGED ccVars
    /\ UNCHANGED fwVars
    /\ UNCHANGED plVars
    /\ UNCHANGED glVars
    /\ UNCHANGED rrVars

proxyHandler(t) ==
    /\ requests[t].pc = "routed"
    /\ requests[t].handler = "proxy"
    /\ \E r \in Draws(backends, algorithm) :
        LET res == NextBackendResult(backends, algorithm, currentIndex, r)
            sel == [requests[t] EXCEPT !.selections = @ + 1]
        IN
        /\ res.cursor \in CursorWindow
        /\ currentIndex' = res.cursor
        /\ IF res.ret.kind # "backend"
           THEN requests' = [requests EXCEPT ![t] =
                    Unwind([Respond(sel, HttpError(503)) EXCEPT
                        !.events = Append(@, RecordRequest("proxy", "503", "none")),
                        !.pc = "done"])]
           ELSE IF ~backends[res.ret.idx].UrlOk
           THEN requests' = [requests EXCEPT ![t] =
                    Unwind([Respond(sel, HttpError(500)) EXCEPT
                        !.backend = res.ret.idx,
                        !.events = Append(@, RecordRequest("proxy", "500",
                                                backends[res.ret.idx].Name)),
                        !.pc = "done"])]
           ELSE requests' = [requests EXCEPT ![t] =
                    [sel EXCEPT !.backend = res.ret.idx, !.pc = "forwarding"]]
    /\ UNCHANGED <<backends, algorithm, call, downed>>
    /\ UNCHANGED <<burst, tokens, refilled>>
    /\ UNCHANGED hcVars
    /\ UNCHANGED rwVars
    /\ UNCHANGED lcVars
    /\ UNCHANGED ccVars
    /\ UNCHANGED fwVars
    /\ UNCHANGED plVars
    /\ UNCHANGED glVars
    /\ UNCHANGED rrVars

(***************************************************************************)
(* Forward: proxy.ServeHTTP returns with the status it wrote; the proxy    *)
(* handler records the outcome twice and the chain unwinds.                *)
(***************************************************************************)
Forward(t) ==
    /\ requests[t].pc = "forwarding"
    /\ \E s \in BackendStatuses :
        LET name == backends[requests[t].backend].Name
            \* rw := metrics.NewResponseWriter(w); proxy.ServeHTTP(rw, r)
            served == Issue(NewResponseWriter(requests[t].w),
                            <<CallWriteHeader(s), CallWrite>>)
        IN
        requests' = [requests EXCEPT ![t] =
            Unwind([@ EXCEPT
                !.forwards = @ + 1,
                !.w = served.ResponseWriter,
                !.status = Bottom(served).status,
                !.events = @ \o <<RecordRequest("proxy", StatusCode(served), name),
                                  RecordBackendRequest(name, StatusCode(served))>>,
                !.pc = "done"])]
    /\ UNCHANGED <<burst, tokens, refilled>>
    /\ UNCHANGED lbVars
    /\ UNCHANGED hcVars
    /\ UNCHANGED rwVars
    /\ UNCHANGED lcVars
    /\ UNCHANGED ccVars
    /\ UNCHANGED fwVars
    /\ UNCHANGED plVars
    /\ UNCHANGED glVars
    /\ UNCHANGED rrVars

(***************************************************************************)
(* checkBackendHealth for the i-th configured backend as the request       *)
(* tasks of Spec see it: the probe's classification is written through     *)
(* SetBackendHealth.  SpecHC follows the same goroutine through both of    *)
(* its writes (ProbeBackend, MirrorBackendStatus).                         *)
(***************************************************************************)
checkBackendHealth(i) ==
    /\ i \in 1..Len(backends)
    /\ \E isHealthy \in BOOLEAN :
        backends' = SetBackendHealthResult(backends, backends[i].Name, isHealthy)
    /\ UNCHANGED <<currentIndex, algorithm, call, downed>>
    /\ UNCHANGED gwVars
    /\ UNCHANGED hcVars
    /\ UNCHANGED rwVars
    /\ UNCHANGED lcVars
    /\ UNCHANGED ccVars
    /\ UNCHANGED fwVars
    /\ UNCHANGED plVars
    /\ UNCHANGED glVars
    /\ UNCHANGED rrVars

(***************************************************************************)
(* checkBackendHealth step by step (SpecHC): the goroutine                 *)
(* performHealthChecks starts for the i-th configured backend builds the   *)
(* request, waits for client.Do, classifies, calls                         *)
(* loadBalancer.SetBackendHealth and then metrics.SetBackendStatus.  The   *)
(* two calls are separate steps: nothing holds a lock across them.         *)
(***************************************************************************)
\* statuses a probed backend answers with
ProbeStatuses == {101, 200, 299, 300}

\* how a probe ends: http.NewRequestWithContext fails, client.Do fails
\* (transport failure or the 5 s timeout), or a response with a status
ProbeOutcomes ==
    { [err |-> e, status |-> 0] : e \in {"construct", "transport", "timeout"} }
        \cup { [err |-> "none", status |-> st] : st \in ProbeStatuses }

NoOutcome == [err |-> "", status |-> 0]
IdleProbe == [pc |-> "idle", outcome |-> NoOutcome, isHealthy |-> FALSE,
              calls |-> <<>>]

\* names the backendUp gauge can hold a series for
GaugeNames == { b.Name : b \in GatewayPool }

\* a classification whose upper comparison is "<= 300"
IsHealthyInclusive(o) == o.err = "none" /\ o.status >= 200 /\ o.status <= 300

\* the value checkBackendHealth passes on: false on either error return,
\* resp.StatusCode >= 200 && resp.StatusCode < 300 otherwise
IsHealthy(o) == o.err = "none" /\ o.status >= 200 /\ o.status < 300

\* metrics.SetBackendStatus
SetBackendStatus(g, name, up) == [g EXCEPT ![name] = IF up THEN 1 ELSE 0]

\* up to and including the SetBackendHealth call
ProbeBackend(i) ==
    /\ i \in 1..Len(backends)
    /\ probe[i].pc = "idle"
    /\ \E o \in ProbeOutcomes :
        LET isHealthy == IsHealthy(o)
            name == backends[i].Name
        IN
        /\ backends' = SetBackendHealthResult(backends, name, isHealthy)
        /\ probe' = [probe EXCEPT ![i] =
                [pc |-> "classified", outcome |-> o, isHealthy |-> isHealthy,
                 calls |-> <<[fn |-> "SetBackendHealth", name |-> name,
                              value |-> isHealthy]>>]]
    /\ UNCHANGED <<currentIndex, algorithm, call, downed, gauge>>
    /\ UNCHANGED gwVars
    /\ UNCHANGED rwVars
    /\ UNCHANGED lcVars
    /\ UNCHANGED ccVars
    /\ UNCHANGED fwVars
    /\ UNCHANGED plVars
    /\ UNCHANGED glVars
    /\ UNCHANGED rrVars

\* the SetBackendStatus call, after which the goroutine ends
MirrorBackendStatus(i) ==
    /\ i \in 1..Len(backends)
    /\ probe[i].pc = "classified"
    /\ gauge' = SetBackendStatus(gauge, backends[i].Name, probe[i].isHealthy)
    /\ probe' = [probe EXCEPT ![i] = IdleProbe]
    /\ UNCHANGED lbVars
    /\ UNCHANGED gwVars
    /\ UNCHANGED rwVars
    /\ UNCHANGED lcVars
    /\ UNCHANGED ccVars
    /\ UNCHANGED fwVars
    /\ UNCHANGED plVars
    /\ UNCHANGED glVars
    /\ UNCHANGED rrVars

(***************************************************************************)
(* Time passes and the limiter gains a token, up to burst.                 *)
(***************************************************************************)
Refill ==
    /\ tokens < burst
    /\ tokens' = tokens + 1
    /\ refilled' = TRUE
    /\ UNCHANGED <<requests, burst>>
    /\ UNCHANGED lbVars
    /\ UNCHANGED hcVars
    /\ UNCHANGED rwVars
    /\ UNCHANGED lcVars
    /\ UNCHANGED ccVars
    /\ UNCHANGED fwVars
    /\ UNCHANGED plVars
    /\ UNCHANGED glVars
    /\ UNCHANGED rrVars

(***************************************************************************)
(* lb.mu and the goroutines that call the LoadBalancer's methods.          *)
(***************************************************************************)
Callers == {"c1", "c2", "c3"}

\* sync.RWMutex: at most one writer, or any number of readers
NoMu == [writer |-> "", readers |-> {}]

\* the state in which no goroutine calls the LoadBalancer
NoCc == [mu |-> NoMu, start |-> 0, log |-> <<>>, pcs |-> <<>>]

\* no request is being rewritten, no probing loop runs, nobody takes the
\* gateway's locks
NoForward == [pc |-> "none"]
NoLoop == [pc |-> "none"]
NoLocks == [pc |-> "none"]

\* what a method holds in its local variables between taking lb.mu and
\* its last statement
NoLocal == [ret |-> NoRet, cursor |-> 0, moved |-> FALSE, idx |-> 0,
            algorithm |-> "", snapshot |-> <<>>,
            totalBackends |-> -1, healthyBackends |-> -1]

IdleCaller == [pc |-> "idle", op |-> "none", arg |-> NoArg, local |-> NoLocal]

\* names and algorithms the concurrent callers pass
CcNames == {"backend1", "backend2"}
CcAlgorithms == {"random", "weighted_round_robin", "invalid_algorithm"}

\* a Lock that does not wait for the mutex
LockNoWait(mu) == TRUE

\* lb.mu.Lock() returns when no goroutine holds the mutex
CanLock(mu) == mu.writer = "" /\ mu.readers = {}

\* an RLock that does not wait for a writer
RLockNoWait(mu) == TRUE

\* lb.mu.RLock() returns when no writer holds the mutex
CanRLock(mu) == mu.writer = ""

\* lb.mu.Lock() / lb.mu.RLock() by caller c
Lock(mu, c) == [mu EXCEPT !.writer = c]
RLock(mu, c) == [mu EXCEPT !.readers = @ \cup {c}]
\* the deferred lb.mu.Unlock() / lb.mu.RUnlock()
Unlock(mu, c) == [mu EXCEPT !.writer = IF @ = c THEN "" ELSE @]
RUnlock(mu, c) == [mu EXCEPT !.readers = @ \ {c}]

\* a method call that has returned, as the caller saw it
Returns(caller, ret, snapshot, stats) ==
    [op |-> caller.op, arg |-> caller.arg, ret |-> ret,
     snapshot |-> snapshot, stats |-> stats]

\* NextBackend from lb.mu.Lock() through the read of lb.currentIndex in
\* roundRobin (or through the draw, in the other modes)
BeginNextBackend(c) ==
    /\ cc.pcs[c].pc = "idle"
    /\ CanLock(cc.mu)
    /\ \E r \in Draws(backends, algorithm) :
        LET res == NextBackendResult(backends, algorithm, currentIndex, r) IN
        /\ res.cursor \in CursorWindow
        /\ cc' = [cc EXCEPT
                    !.mu = Lock(@, c),
                    !.pcs[c] = [pc |-> "held", op |-> "NextBackend",
                                arg |-> NoArg,
                                local |-> [NoLocal EXCEPT
                                    !.ret = res.ret,
                                    !.cursor = res.cursor,
                                    !.moved = res.cursor # currentIndex]]]
    /\ UNCHANGED lbVars
    /\ UNCHANGED gwVars
    /\ UNCHANGED hcVars
    /\ UNCHANGED rwVars
    /\ UNCHANGED lcVars
    /\ UNCHANGED fwVars
    /\ UNCHANGED plVars
    /\ UNCHANGED glVars
    /\ UNCHANGED rrVars

\* lb.currentIndex++ with its reset, the return and the deferred Unlock
EndNextBackend(c) ==
    /\ cc.pcs[c].pc = "held"
    /\ cc.pcs[c].op = "NextBackend"
    /\ currentIndex' = IF cc.pcs[c].local.moved THEN cc.pcs[c].local.cursor
                        ELSE currentIndex
    /\ cc' = [cc EXCEPT
                !.mu = Unlock(@, c),
                !.pcs[c].pc = "done",
                !.log = Append(@, Returns(cc.pcs[c], cc.pcs[c].local.ret,
                                          <<>>, NoStats))]
    /\ UNCHANGED <<backends, algorithm, call, downed>>
    /\ UNCHANGED gwVars
    /\ UNCHANGED hcVars
    /\ UNCHANGED rwVars
    /\ UNCHANGED lcVars
    /\ UNCHANGED fwVars
    /\ UNCHANGED plVars
    /\ UNCHANGED glVars
    /\ UNCHANGED rrVars

\* SetBackendHealth from lb.mu.Lock() through the search for the name
BeginSetBackendHealth(c) ==
    /\ cc.pcs[c].pc = "idle"
    /\ CanLock(cc.mu)
    /\ \E name \in CcNames, healthy \in BOOLEAN :
        cc' = [cc EXCEPT
                !.mu = Lock(@, c),
                !.pcs[c] = [pc |-> "held", op |-> "SetBackendHealth",
                            arg |-> [name |-> name, healthy |-> healthy],
                            local |-> [NoLocal EXCEPT
                                !.idx = FindByName(backends, name, 1)]]]
    /\ UNCHANGED lbVars
    /\ UNCHANGED gwVars
    /\ UNCHANGED hcVars
    /\ UNCHANGED rwVars
    /\ UNCHANGED lcVars
    /\ UNCHANGED fwVars
    /\ UNCHANGED plVars
    /\ UNCHANGED glVars
    /\ UNCHANGED rrVars

\* the write of backend.Healthy, the return and the deferred Unlock
EndSetBackendHealth(c) ==
    /\ cc.pcs[c].pc = "held"
    /\ cc.pcs[c].op = "SetBackendHealth"
    /\ LET idx == cc.pcs[c].local.idx
           arg == cc.pcs[c].arg
       IN
       /\ backends' = IF idx = 0 THEN backends
                       ELSE [backends EXCEPT ![idx].Healthy = arg.healthy]
       /\ downed' = IF idx = 0 THEN downed
                     ELSE IF arg.healthy THEN downed \ {arg.name}
                     ELSE downed \cup {arg.name}
    /\ cc' = [cc EXCEPT
                !.mu = Unlock(@, c),
                !.pcs[c].pc = "done",
                !.log = Append(@, Returns(cc.pcs[c], NoRet, <<>>, NoStats))]
    /\ UNCHANGED <<currentIndex, algorithm, call>>
    /\ UNCHANGED gwVars
    /\ UNCHANGED hcVars
    /\ UNCHANGED rwVars
    /\ UNCHANGED lcVars
    /\ UNCHANGED fwVars
    /\ UNCHANGED plVars
    /\ UNCHANGED glVars
    /\ UNCHANGED rrVars

\* SetAlgorithm from lb.mu.Lock() through the lookup in validAlgorithms
BeginSetAlgorithm(c) ==
    /\ cc.pcs[c].pc = "idle"
    /\ CanLock(cc.mu)
    /\ \E a \in CcAlgorithms :
        cc' = [cc EXCEPT
                !.mu = Lock(@, c),
                !.pcs[c] = [pc |-> "held", op |-> "SetAlgorithm",
                            arg |-> [name |-> a, healthy |-> FALSE],
                            local |-> [NoLocal EXCEPT
                                !.algorithm = SetAlgorithmResult(a)]]]
    /\ UNCHANGED lbVars
    /\ UNCHANGED gwVars
    /\ UNCHANGED hcVars
    /\ UNCHANGED rwVars
    /\ UNCHANGED lcVars
    /\ UNCHANGED fwVars
    /\ UNCHANGED plVars
    /\ UNCHANGED glVars
    /\ UNCHANGED rrVars

\* the write of lb.algorithm, the return and the deferred Unlock
EndSetAlgorithm(c) ==
    /\ cc.pcs[c].pc = "held"
    /\ cc.pcs[c].op = "SetAlgorithm"
    /\ algorithm' = cc.pcs[c].local.algorithm
    /\ cc' = [cc EXCEPT
                !.mu = Unlock(@, c),
                !.pcs[c].pc = "done",
                !.log = Append(@, Returns(cc.pcs[c], NoRet, <<>>, NoStats))]
    /\ UNCHANGED <<backends, currentIndex, call, downed>>
    /\ UNCHANGED gwVars
    /\ UNCHANGED hcVars
    /\ UNCHANGED rwVars
    /\ UNCHANGED lcVars
    /\ UNCHANGED fwVars
    /\ UNCHANGED plVars
    /\ UNCHANGED glVars
    /\ UNCHANGED rrVars

\* GetHealthyBackends from lb.mu.RLock() through getHealthyBackendsLocked
BeginGetHealthyBackends(c) ==
    /\ cc.pcs[c].pc = "idle"
    /\ CanRLock(cc.mu)
    /\ cc' = [cc EXCEPT
                !.mu = RLock(@, c),
                !.pcs[c] = [pc |-> "held", op |-> "GetHealthyBackends",
                            arg |-> NoArg,
                            local |-> [NoLocal EXCEPT
                                !.snapshot =
                                    getHealthyBackendsLocked(backends)]]]
    /\ UNCHANGED lbVars
    /\ UNCHANGED gwVars
    /\ UNCHANGED hcVars
    /\ UNCHANGED rwVars
    /\ UNCHANGED lcVars
    /\ UNCHANGED fwVars
    /\ UNCHANGED plVars
    /\ UNCHANGED glVars
    /\ UNCHANGED rrVars

\* the return and the deferred RUnlock
EndGetHealthyBackends(c) ==
    /\ cc.pcs[c].pc = "held"
    /\ cc.pcs[c].op = "GetHealthyBackends"
    /\ cc' = [cc EXCEPT
                !.mu = RUnlock(@, c),
                !.pcs[c].pc = "done",
                !.log = Append(@, Returns(cc.pcs[c], NoRet,
                                          cc.pcs[c].local.snapshot, NoStats))]
    /\ UNCHANGED lbVars
    /\ UNCHANGED gwVars
    /\ UNCHANGED hcVars
    /\ UNCHANGED rwVars
    /\ UNCHANGED lcVars
    /\ UNCHANGED fwVars
    /\ UNCHANGED plVars
    /\ UNCHANGED glVars
    /\ UNCHANGED rrVars

\* GetStats from lb.mu.RLock() through the four scalar entries
BeginGetStats(c) ==
    /\ cc.pcs[c].pc = "idle"
    /\ CanRLock(cc.mu)
    /\ cc' = [cc EXCEPT
                !.mu = RLock(@, c),
                !.pcs[c] = [pc |-> "held", op |-> "GetStats", arg |-> NoArg,
                            local |-> [NoLocal EXCEPT
                                !.totalBackends = Len(backends),
                                !.healthyBackends =
                                    Len(getHealthyBackendsLocked(backends)),
                                !.algorithm = algorithm]]]
    /\ UNCHANGED lbVars
    /\ UNCHANGED gwVars
    /\ UNCHANGED hcVars
    /\ UNCHANGED rwVars
    /\ UNCHANGED lcVars
    /\ UNCHANGED fwVars
    /\ UNCHANGED plVars
    /\ UNCHANGED glVars
    /\ UNCHANGED rrVars

\* the loop that fills stats["backends"], the return and the deferred
\* RUnlock
EndGetStats(c) ==
    /\ cc.pcs[c].pc = "held"
    /\ cc.pcs[c].op = "GetStats"
    /\ LET local == cc.pcs[c].local
           stats == [GetStatsResult(backends, algorithm) EXCEPT
                        !.total_backends = local.totalBackends,
                        !.healthy_backends = local.healthyBackends,
                        !.unhealthy_backends =
                            local.totalBackends - local.healthyBackends,
                        !.algorithm = local.algorithm]
       IN
       cc' = [cc EXCEPT
                !.mu = RUnlock(@, c),
                !.pcs[c].pc = "done",
                !.log = Append(@, Returns(cc.pcs[c], NoRet, <<>>, stats))]
    /\ UNCHANGED lbVars
    /\ UNCHANGED gwVars
    /\ UNCHANGED hcVars
    /\ UNCHANGED rwVars
    /\ UNCHANGED lcVars
    /\ UNCHANGED fwVars
    /\ UNCHANGED plVars
    /\ UNCHANGED glVars
    /\ UNCHANGED rrVars

(***************************************************************************)
(* SpecLB: a LoadBalancer built by New from any list over the pool, after  *)
(* any number of earlier round-robin selections (the cursor starts at 0 or *)
(* shortly before its reset).                                              *)
(***************************************************************************)
InitLB ==
    /\ backends \in { New(cfg) : cfg \in SeqsUpTo(BackendPool, MaxBackends) }
    /\ currentIndex \in {0, CursorWrap - MaxSteps}
    /\ algorithm = "round_robin"
    /\ call = NoCall
    /\ downed = {}
    /\ requests = [t \in Tasks |-> IdleRequest]
    /\ burst = 0
    /\ tokens = 0
    /\ refilled = FALSE
    /\ probe = [i \in 1..MaxGwBackends |-> IdleProbe]
    /\ gauge = [n \in GaugeNames |-> -1]
    /\ rw = [w |-> NewResponseWriter(BaseWriter), issued |-> <<>>]
    /\ active = <<>>
    /\ cc = NoCc
    /\ fw = NoForward
    /\ loop = NoLoop
    /\ gl = NoLocks
    /\ gap = <<>>

NextLB ==
    \/ NextBackend
    \/ SetBackendHealth
    \/ SetAlgorithm
    \/ GetStats
    \/ GetHealthyBackends

SpecLB == InitLB /\ [][NextLB]_vars

(***************************************************************************)
(* Spec: the gateway built by gateway.New from any configuration over the  *)
(* pool, with the limiter full and every backend healthy.  The gateway     *)
(* never calls SetAlgorithm, so the algorithm stays round_robin.           *)
(***************************************************************************)
Init ==
    /\ backends \in { New(cfg) : cfg \in SeqsUpTo(GatewayPool, MaxGwBackends) }
    /\ currentIndex = 0
    /\ algorithm = "round_robin"
    /\ call = NoCall
    /\ downed = {}
    /\ requests = [t \in Tasks |-> IdleRequest]
    /\ burst \in 0..MaxBurst
    /\ tokens = burst
    /\ refilled = FALSE
    /\ probe = [i \in 1..MaxGwBackends |-> IdleProbe]
    /\ gauge = [n \in GaugeNames |-> -1]
    /\ rw = [w |-> NewResponseWriter(BaseWriter), issued |-> <<>>]
    /\ active = <<>>
    /\ cc = NoCc
    /\ fw = NoForward
    /\ loop = NoLoop
    /\ gl = NoLocks
    /\ gap = <<>>

Next ==
    \/ \E t \in Tasks : Serve(t)
    \/ \E t \in Tasks : HandleHealth(t)
    \/ \E t \in Tasks : HandleMetrics(t)
    \/ \E t \in Tasks : proxyHandler(t)
    \/ \E t \in Tasks : Forward(t)
    \/ \E i \in 1..MaxGwBackends : checkBackendHealth(i)
    \/ Refill

Spec == Init /\ [][Next]_vars

(***************************************************************************)
(* SpecHC: the gateway's health checks alone, from construction on: for    *)
(* every configured backend a probe goroutine, any number of rounds, the   *)
(* goroutines of one round interleaved.                                    *)
(***************************************************************************)
InitHC ==
    /\ Init
    /\ burst = 0

NextHC ==
    \/ \E i \in 1..MaxGwBackends : ProbeBackend(i)
    \/ \E i \in 1..MaxGwBackends : MirrorBackendStatus(i)

SpecHC == InitHC /\ [][NextHC]_vars

(***************************************************************************)
(* SpecRW: one metrics.ResponseWriter around a fresh response, and every   *)
(* sequence of up to MaxCalls WriteHeader and Write calls through it.      *)
(***************************************************************************)
InitRW ==
    /\ Init
    /\ burst = 0
    /\ backends = <<>>

NextRW ==
    \/ WriteHeader
    \/ Write

SpecRW == InitRW /\ [][NextRW]_vars

(***************************************************************************)
(* SpecLC: a LoadBalancer switched to least_connections, and clients that  *)
(* use it as proxyHandler does: a client takes the backend NextBackend     *)
(* returns and sends its request there; the connection is active until the *)
(* proxy's ServeHTTP returns.  Health updates arrive in between.           *)
(***************************************************************************)
\* gateway.go:105-135  backend := NextBackend(); ...; proxy.ServeHTTP(rw, r)
\* up to the point where the request is on its way to the backend
Dispatch ==
    /\ currentIndex < MaxDispatches
    /\ \E r \in Draws(backends, algorithm) :
        LET res == NextBackendResult(backends, algorithm, currentIndex, r) IN
        /\ currentIndex' = res.cursor
        /\ call' = [op |-> "NextBackend", ret |-> res.ret, arg |-> NoArg,
                     stats |-> NoStats, snapshot |-> <<>>]
        /\ active' = IF res.ret.kind = "backend"
                      THEN [active EXCEPT ![res.ret.idx] = @ + 1]
                      ELSE active
    /\ UNCHANGED <<backends, algorithm, downed>>
    /\ UNCHANGED gwVars
    /\ UNCHANGED hcVars
    /\ UNCHANGED rwVars
    /\ UNCHANGED ccVars
    /\ UNCHANGED fwVars
    /\ UNCHANGED plVars
    /\ UNCHANGED glVars
    /\ UNCHANGED rrVars

\* gateway.go:135  proxy.ServeHTTP returns: the request to entry i is over
Finish(i) ==
    /\ i \in 1..Len(backends)
    /\ active[i] > 0
    /\ active' = [active EXCEPT ![i] = @ - 1]
    /\ UNCHANGED lbVars
    /\ UNCHANGED gwVars
    /\ UNCHANGED hcVars
    /\ UNCHANGED rwVars
    /\ UNCHANGED ccVars
    /\ UNCHANGED fwVars
    /\ UNCHANGED plVars
    /\ UNCHANGED glVars
    /\ UNCHANGED rrVars

InitLC ==
    /\ backends \in { New(cfg) : cfg \in SeqsUpTo(BackendPool, MaxBackends) }
    /\ currentIndex = 0
    /\ algorithm = SetAlgorithmResult("least_connections")
    /\ call = NoCall
    /\ downed = {}
    /\ requests = [t \in Tasks |-> IdleRequest]
    /\ burst = 0
    /\ tokens = 0
    /\ refilled = FALSE
    /\ probe = [i \in 1..MaxGwBackends |-> IdleProbe]
    /\ gauge = [n \in GaugeNames |-> -1]
    /\ rw = [w |-> NewResponseWriter(BaseWriter), issued |-> <<>>]
    /\ active = [i \in 1..Len(backends) |-> 0]
    /\ cc = NoCc
    /\ fw = NoForward
    /\ loop = NoLoop
    /\ gl = NoLocks
    /\ gap = <<>>

NextLC ==
    \/ Dispatch
    \/ \E i \in 1..MaxBackends : Finish(i)
    \/ SetBackendHealth

SpecLC == InitLC /\ [][NextLC]_vars

(***************************************************************************)
(* SpecCC: a LoadBalancer built by New, with the cursor at 0 or at its     *)
(* last value before the reset, and goroutines that each call one of its   *)
(* methods, all at the same time; lb.mu decides who runs.                  *)
(***************************************************************************)
InitCC ==
    /\ backends \in { New(cfg) : cfg \in SeqsUpTo(BackendPool, MaxGwBackends) }
    /\ currentIndex \in {0, CursorWrap - 1}
    /\ algorithm = "round_robin"
    /\ call = NoCall
    /\ downed = {}
    /\ requests = [t \in Tasks |-> IdleRequest]
    /\ burst = 0
    /\ tokens = 0
    /\ refilled = FALSE
    /\ probe = [i \in 1..MaxGwBackends |-> IdleProbe]
    /\ gauge = [n \in GaugeNames |-> -1]
    /\ rw = [w |-> NewResponseWriter(BaseWriter), issued |-> <<>>]
    /\ active = <<>>
    /\ cc = [mu |-> NoMu, start |-> currentIndex, log |-> <<>>,
             pcs |-> [c \in Callers |-> IdleCaller]]
    /\ fw = NoForward
    /\ loop = NoLoop
    /\ gl = NoLocks
    /\ gap = <<>>

NextCC ==
    \/ \E c \in Callers : BeginNextBackend(c)
    \/ \E c \in Callers : EndNextBackend(c)
    \/ \E c \in Callers : BeginSetBackendHealth(c)
    \/ \E c \in Callers : EndSetBackendHealth(c)
    \/ \E c \in Callers : BeginSetAlgorithm(c)
    \/ \E c \in Callers : EndSetAlgorithm(c)
    \/ \E c \in Callers : BeginGetHealthyBackends(c)
    \/ \E c \in Callers : EndGetHealthyBackends(c)
    \/ \E c \in Callers : BeginGetStats(c)
    \/ \E c \in Callers : EndGetStats(c)

SpecCC == InitCC /\ [][NextCC]_vars

(***************************************************************************)
(* SpecPL: the probing loop.  startHealthChecks runs a goroutine that, on  *)
(* every tick, calls performHealthChecks, which starts one goroutine       *)
(* running checkBackendHealth per configured backend and does not wait for *)
(* them.  The goroutines of one tick may still run when the next tick      *)
(* comes: two rounds are followed, a tick reuses a round once all of its   *)
(* goroutines have ended.  loop.tick is the parity of the number of ticks. *)
(***************************************************************************)
Rounds == {"a", "b"}

IdleTask == [pc |-> "idle", isHealthy |-> FALSE]

\* a loop that starts a goroutine for the first backend only
FirstBackendOnly(bs) == 1..(IF Len(bs) = 0 THEN 0 ELSE 1)

\* gateway.go:164  for _, backend := range gw.config.Backends
ConfiguredBackends(bs) == 1..Len(bs)

\* a tick: gateway.go:153-154, 160-167
performHealthChecks(g) ==
    /\ loop.pc = "ticking"
    /\ \A i \in 1..MaxGwBackends : loop.task[i][g].pc = "idle"
    /\ loop' = [loop EXCEPT
            !.tick = 1 - @,
            !.task =
            [i \in 1..MaxGwBackends |->
                IF i \in ConfiguredBackends(backends)
                THEN [loop.task[i] EXCEPT ![g] =
                        [pc |-> "probing", isHealthy |-> FALSE]]
                ELSE loop.task[i]]]
    /\ UNCHANGED lbVars
    /\ UNCHANGED gwVars
    /\ UNCHANGED hcVars
    /\ UNCHANGED rwVars
    /\ UNCHANGED lcVars
    /\ UNCHANGED ccVars
    /\ UNCHANGED fwVars
    /\ UNCHANGED glVars
    /\ UNCHANGED rrVars

\* checkBackendHealth of round g for backend i, from its start to its
\* SetBackendHealth call: the request cannot be built, client.Do fails or
\* times out, or a response arrives (gateway.go:169-194)
Classify(i, g) ==
    /\ i \in 1..Len(backends)
    /\ loop.pc = "ticking"
    /\ loop.task[i][g].pc = "probing"
    /\ \E o \in ProbeOutcomes :
        /\ backends' = SetBackendHealthResult(backends, backends[i].Name,
                                               IsHealthy(o))
        /\ loop' = [loop EXCEPT !.task[i][g] =
                        [pc |-> "classified", isHealthy |-> IsHealthy(o)]]
    /\ UNCHANGED <<currentIndex, algorithm, call, downed>>
    /\ UNCHANGED gwVars
    /\ UNCHANGED hcVars
    /\ UNCHANGED rwVars
    /\ UNCHANGED lcVars
    /\ UNCHANGED ccVars
    /\ UNCHANGED fwVars
    /\ UNCHANGED glVars
    /\ UNCHANGED rrVars

\* the goroutine's metrics.SetBackendStatus call, after which it ends
\* (gateway.go:179, 188, 195)
Mirror(i, g) ==
    /\ i \in 1..Len(backends)
    /\ loop.pc = "ticking"
    /\ loop.task[i][g].pc = "classified"
    /\ gauge' = SetBackendStatus(gauge, backends[i].Name,
                                 loop.task[i][g].isHealthy)
    /\ loop' = [loop EXCEPT !.task[i][g] = IdleTask]
    /\ UNCHANGED lbVars
    /\ UNCHANGED gwVars
    /\ UNCHANGED probe
    /\ UNCHANGED rwVars
    /\ UNCHANGED lcVars
    /\ UNCHANGED ccVars
    /\ UNCHANGED fwVars
    /\ UNCHANGED glVars
    /\ UNCHANGED rrVars

\* the configurations probed: whether a backend's URL parses for the proxy
\* makes no difference to a probe, whose ProbeOutcomes hold the request that
\* cannot be built
ProbedPool == { b \in GatewayPool : b.UrlOk }

InitPL ==
    /\ backends \in { New(cfg) : cfg \in SeqsUpTo(ProbedPool, MaxGwBackends) }
    /\ currentIndex = 0
    /\ algorithm = "round_robin"
    /\ call = NoCall
    /\ downed = {}
    /\ requests = [t \in Tasks |-> IdleRequest]
    /\ burst = 0
    /\ tokens = 0
    /\ refilled = FALSE
    /\ probe = [i \in 1..MaxGwBackends |-> IdleProbe]
    /\ gauge = [n \in GaugeNames |-> -1]
    /\ rw = [w |-> NewResponseWriter(BaseWriter), issued |-> <<>>]
    /\ active = <<>>
    /\ cc = NoCc
    /\ fw = NoForward
    /\ loop = [pc |-> "ticking",
               tick |-> 0,
               task |-> [i \in 1..MaxGwBackends |->
                            [g \in Rounds |-> IdleTask]]]
    /\ gl = NoLocks
    /\ gap = <<>>

NextPL ==
    \/ \E g \in Rounds : performHealthChecks(g)
    \/ \E i \in 1..MaxGwBackends, g \in Rounds : Classify(i, g)
    \/ \E i \in 1..MaxGwBackends, g \in Rounds : Mirror(i, g)

\* the ticker fires again and again; client.Do returns within the client's
\* 5 s timeout; a goroutine that can run does run
FairPL ==
    /\ WF_vars(\E g \in Rounds : performHealthChecks(g))
    /\ \A i \in 1..MaxGwBackends, g \in Rounds :
          WF_vars(Classify(i, g)) /\ WF_vars(Mirror(i, g))

SpecPL == InitPL /\ [][NextPL]_vars /\ FairPL

(***************************************************************************)
(* SpecGL: gw.mu and lb.mu and the goroutines that take them: two /health  *)
(* requests, a proxied request, the probing loop's tick and the two probe  *)
(* goroutines it starts.  Each goroutine runs a program, the sequence of   *)
(* its lock operations, go statements and waits on the network;            *)
(* gl.pc[t] is the position of t's next operation, 0 when t is not         *)
(* running.                                                                *)
(***************************************************************************)
Handlers == {"h1", "h2"}
Proxies == {"p1"}
Tickers == {"tick"}
Probes == {"q1", "q2"}
GlTasks == Handlers \cup Proxies \cup Tickers \cup Probes

Op(kind, on) == [op |-> kind, on |-> on]

\* healthHandler (gateway.go:87-89) around GetHealthyBackends
\* (loadbalancer.go:136-139)
healthHandlerOps ==
    << Op("RLock", "gw"), Op("RLock", "lb"),
       Op("RUnlock", "lb"), Op("RUnlock", "gw") >>

\* proxyHandler: NextBackend (loadbalancer.go:47-48), then the exchange
\* with the backend (gateway.go:135)
proxyHandlerOps == << Op("Lock", "lb"), Op("Unlock", "lb"), Op("io", "") >>

\* a tick that waits for the network before it unlocks
performHealthChecksWaitingOps ==
    << Op("Lock", "gw"), Op("go", "q1"), Op("go", "q2"),
       Op("io", ""), Op("Unlock", "gw") >>

\* performHealthChecks (gateway.go:161-166)
performHealthChecksOps ==
    << Op("Lock", "gw"), Op("go", "q1"), Op("go", "q2"), Op("Unlock", "gw") >>

\* checkBackendHealth: client.Do (gateway.go:184), then SetBackendHealth
\* (loadbalancer.go:143-144)
checkBackendHealthOps == << Op("io", ""), Op("Lock", "lb"), Op("Unlock", "lb") >>

Program(t) ==
    IF t \in Handlers THEN healthHandlerOps
    ELSE IF t \in Proxies THEN proxyHandlerOps
    ELSE IF t \in Tickers THEN performHealthChecksOps
    ELSE checkBackendHealthOps

NoOp == Op("none", "")

\* the operation goroutine t is at
At(t) ==
    IF gl.pc[t] \in 1..Len(Program(t)) THEN Program(t)[gl.pc[t]] ELSE NoOp

\* the position after the operation at position k: 0 after the last one
Advance(t, k) == IF k >= Len(Program(t)) THEN 0 ELSE k + 1

\* goroutines blocked in Lock() / RLock() of mutex m
WaitingWriters(m) == { t \in GlTasks : At(t) = Op("Lock", m) }
WaitingReaders(m) == { t \in GlTasks : At(t) = Op("RLock", m) }

\* a request arrives, or the ticker fires
Arrive(t) ==
    /\ t \in Handlers \cup Proxies \cup Tickers
    /\ gl.pc[t] = 0
    /\ gl' = [gl EXCEPT !.pc[t] = 1]
    /\ UNCHANGED lbVars
    /\ UNCHANGED gwVars
    /\ UNCHANGED hcVars
    /\ UNCHANGED rwVars
    /\ UNCHANGED lcVars
    /\ UNCHANGED ccVars
    /\ UNCHANGED fwVars
    /\ UNCHANGED plVars
    /\ UNCHANGED rrVars

\* sync.RWMutex.Lock returns
DoLock(t) ==
    /\ At(t).op = "Lock"
    /\ CanLock(gl.mu[At(t).on])
    /\ gl' = [gl EXCEPT !.mu[At(t).on] = Lock(@, t),
                        !.pc[t] = Advance(t, @)]
    /\ UNCHANGED lbVars
    /\ UNCHANGED gwVars
    /\ UNCHANGED hcVars
    /\ UNCHANGED rwVars
    /\ UNCHANGED lcVars
    /\ UNCHANGED ccVars
    /\ UNCHANGED fwVars
    /\ UNCHANGED plVars
    /\ UNCHANGED rrVars

\* sync.RWMutex.RLock returns at once: no writer holds the mutex and none
\* waits for it
DoRLock(t) ==
    /\ At(t).op = "RLock"
    /\ CanRLock(gl.mu[At(t).on])
    /\ WaitingWriters(At(t).on) = {}
    /\ gl' = [gl EXCEPT !.mu[At(t).on] = RLock(@, t),
                        !.pc[t] = Advance(t, @)]
    /\ UNCHANGED lbVars
    /\ UNCHANGED gwVars
    /\ UNCHANGED hcVars
    /\ UNCHANGED rwVars
    /\ UNCHANGED lcVars
    /\ UNCHANGED ccVars
    /\ UNCHANGED fwVars
    /\ UNCHANGED plVars
    /\ UNCHANGED rrVars

\* sync.RWMutex.Unlock: the readers blocked in RLock are let in
DoUnlock(t) ==
    /\ At(t).op = "Unlock"
    /\ LET m == At(t).on
           woken == WaitingReaders(m)
       IN gl' = [gl EXCEPT
                    !.mu[m] = [writer |-> Unlock(gl.mu[m], t).writer,
                               readers |-> gl.mu[m].readers \cup woken],
                    !.pc = [u \in GlTasks |->
                               IF u = t \/ u \in woken
                               THEN Advance(u, gl.pc[u])
                               ELSE gl.pc[u]]]
    /\ UNCHANGED lbVars
    /\ UNCHANGED gwVars
    /\ UNCHANGED hcVars
    /\ UNCHANGED rwVars
    /\ UNCHANGED lcVars
    /\ UNCHANGED ccVars
    /\ UNCHANGED fwVars
    /\ UNCHANGED plVars
    /\ UNCHANGED rrVars

\* sync.RWMutex.RUnlock
DoRUnlock(t) ==
    /\ At(t).op = "RUnlock"
    /\ gl' = [gl EXCEPT !.mu[At(t).on] = RUnlock(@, t),
                        !.pc[t] = Advance(t, @)]
    /\ UNCHANGED lbVars
    /\ UNCHANGED gwVars
    /\ UNCHANGED hcVars
    /\ UNCHANGED rwVars
    /\ UNCHANGED lcVars
    /\ UNCHANGED ccVars
    /\ UNCHANGED fwVars
    /\ UNCHANGED plVars
    /\ UNCHANGED rrVars

\* go gw.checkBackendHealth(backend): the statement does not wait.  One
\* goroutine is followed per backend: when that of an earlier tick still
\* runs, the new one is not followed.
DoGo(t) ==
    /\ At(t).op = "go"
    /\ gl' = [gl EXCEPT !.pc[At(t).on] = IF @ = 0 THEN 1 ELSE @,
                        !.pc[t] = Advance(t, @)]
    /\ UNCHANGED lbVars
    /\ UNCHANGED gwVars
    /\ UNCHANGED hcVars
    /\ UNCHANGED rwVars
    /\ UNCHANGED lcVars
    /\ UNCHANGED ccVars
    /\ UNCHANGED fwVars
    /\ UNCHANGED plVars
    /\ UNCHANGED rrVars

\* the network answers, fails or times out
DoIO(t) ==
    /\ At(t).op = "io"
    /\ gl' = [gl EXCEPT !.pc[t] = Advance(t, @)]
    /\ UNCHANGED lbVars
    /\ UNCHANGED gwVars
    /\ UNCHANGED hcVars
    /\ UNCHANGED rwVars
    /\ UNCHANGED lcVars
    /\ UNCHANGED ccVars
    /\ UNCHANGED fwVars
    /\ UNCHANGED plVars
    /\ UNCHANGED rrVars

InitGL ==
    /\ backends = <<>>
    /\ currentIndex = 0
    /\ algorithm = "round_robin"
    /\ call = NoCall
    /\ downed = {}
    /\ requests = [t \in Tasks |-> IdleRequest]
    /\ burst = 0
    /\ tokens = 0
    /\ refilled = FALSE
    /\ probe = [i \in 1..MaxGwBackends |-> IdleProbe]
    /\ gauge = [n \in GaugeNames |-> -1]
    /\ rw = [w |-> NewResponseWriter(BaseWriter), issued |-> <<>>]
    /\ active = <<>>
    /\ cc = NoCc
    /\ fw = NoForward
    /\ loop = NoLoop
    /\ gl = [mu |-> [m \in {"gw", "lb"} |-> NoMu],
             pc |-> [t \in GlTasks |-> 0]]
    /\ gap = <<>>

NextGL ==
    \/ \E t \in GlTasks : Arrive(t)
    \/ \E t \in GlTasks : DoLock(t)
    \/ \E t \in GlTasks : DoRLock(t)
    \/ \E t \in GlTasks : DoUnlock(t)
    \/ \E t \in GlTasks : DoRUnlock(t)
    \/ \E t \in GlTasks : DoGo(t)
    \/ \E t \in GlTasks : DoIO(t)

\* a goroutine that can run does run; a goroutine blocked in Lock or RLock
\* is not passed over for ever (sync.Mutex hands the mutex to a waiter that
\* has waited for 1 ms, sync.RWMutex lets no new reader in while a writer
\* waits).  Nothing is assumed of requests arriving or of the network.
FairGL ==
    \A t \in GlTasks :
        /\ SF_vars(DoLock(t) \/ DoRLock(t))
        /\ WF_vars(DoUnlock(t) \/ DoRUnlock(t) \/ DoGo(t))

SpecGL == InitGL /\ [][NextGL]_vars /\ FairGL

(***************************************************************************)
(* SpecRR: NextBackend called again and again under round_robin on a       *)
(* registry whose flags no longer change.  gap[i] counts the selections of *)
(* other entries since entry i was last selected (since the first call,    *)
(* before its first selection).  The calls are followed one by one after   *)
(* construction or a reset and before the reset; the calls in between are  *)
(* taken in one step, a whole number of rotations.                         *)
(***************************************************************************)
RECURSIVE MarkDown(_, _)
\* the registry after SetBackendHealth(name, false) for the names in down
MarkDown(bs, down) ==
    IF down = {} THEN bs
    ELSE LET n == CHOOSE x \in down : TRUE IN
         MarkDown(SetBackendHealthResult(bs, n, FALSE), down \ {n})

\* the last cursor followed call by call after a reset, and the first one
\* followed call by call before the next reset
LowTop == 2 * MaxBackends
HighFrom == CursorWrap - 2 * MaxBackends

\* the first cursor from HighFrom on that is a whole number of rotations of
\* n entries away from LowTop
SkipTarget(n) == HighFrom + ((n - ((HighFrom - LowTop) % n)) % n)

\* one call
SelectNext ==
    /\ algorithm = "round_robin"
    /\ currentIndex # LowTop
    /\ \E r \in Draws(backends, algorithm) :
        LET res == NextBackendResult(backends, algorithm, currentIndex, r) IN
        /\ currentIndex' = res.cursor
        /\ call' = [op |-> "NextBackend", ret |-> res.ret, arg |-> NoArg,
                     stats |-> NoStats, snapshot |-> <<>>]
        /\ gap' = [i \in 1..Len(backends) |->
                      IF ~backends[i].Healthy \/ res.ret.idx = i THEN 0
                      ELSE gap[i] + 1]
    /\ UNCHANGED <<backends, algorithm, downed>>
    /\ UNCHANGED gwVars
    /\ UNCHANGED hcVars
    /\ UNCHANGED rwVars
    /\ UNCHANGED lcVars
    /\ UNCHANGED ccVars
    /\ UNCHANGED fwVars
    /\ UNCHANGED plVars
    /\ UNCHANGED glVars

\* the calls from cursor LowTop to cursor SkipTarget: every healthy entry
\* is selected in each rotation, the last call selects the entry at
\* (SkipTarget - 1) mod n, and entry j of the snapshot (from 0) was last
\* selected at the last cursor before SkipTarget that is j mod n
SelectRotations ==
    LET h == getHealthyBackendsLocked(backends)
        n == Len(h)
    IN
    /\ algorithm = "round_robin"
    /\ currentIndex = LowTop
    /\ n > 0
    /\ currentIndex' = SkipTarget(n)
    /\ call' = [op |-> "NextBackend",
                 ret |-> roundRobin(h, SkipTarget(n) - 1).ret,
                 arg |-> NoArg, stats |-> NoStats, snapshot |-> <<>>]
    /\ gap' = [i \in 1..Len(backends) |->
                  IF ~backends[i].Healthy THEN 0
                  ELSE LET j == (CHOOSE k \in 1..n : h[k] = i) - 1 IN
                       (SkipTarget(n) - 1 - j) % n]
    /\ UNCHANGED <<backends, algorithm, downed>>
    /\ UNCHANGED gwVars
    /\ UNCHANGED hcVars
    /\ UNCHANGED rwVars
    /\ UNCHANGED lcVars
    /\ UNCHANGED ccVars
    /\ UNCHANGED fwVars
    /\ UNCHANGED plVars
    /\ UNCHANGED glVars

InitRR ==
    /\ backends \in { MarkDown(New(cfg), down) :
                          cfg \in SeqsUpTo(BackendPool, MaxBackends),
                          down \in SUBSET HealthNames }
    /\ currentIndex \in (0..LowTop) \cup (HighFrom..(CursorWrap - 1))
    /\ algorithm = "round_robin"
    /\ call = NoCall
    /\ downed = {}
    /\ requests = [t \in Tasks |-> IdleRequest]
    /\ burst = 0
    /\ tokens = 0
    /\ refilled = FALSE
    /\ probe = [i \in 1..MaxGwBackends |-> IdleProbe]
    /\ gauge = [n \in GaugeNames |-> -1]
    /\ rw = [w |-> NewResponseWriter(BaseWriter), issued |-> <<>>]
    /\ active = <<>>
    /\ cc = NoCc
    /\ fw = NoForward
    /\ loop = NoLoop
    /\ gl = NoLocks
    /\ gap = [i \in 1..Len(backends) |-> 0]

NextRR == SelectNext \/ SelectRotations

\* the sequence of calls never ends
FairRR == WF_vars(SelectNext) /\ WF_vars(SelectRotations)

SpecRR == InitRR /\ [][NextRR]_vars /\ FairRR

(***************************************************************************)
(* SpecFW: one request on its way through proxyHandler's rewrite           *)
(* (gateway.go:113-135).  The request is as net/http's server hands it to  *)
(* a handler: the Host header line is moved to r.Host and is not in        *)
(* r.Header, and r.URL has neither scheme nor host.                        *)
(***************************************************************************)
\* hosts a caller addresses the gateway by; "" for HTTP/1.0 without Host
CallerHosts == {"gateway.example", "api.example:8080", ""}

\* what a caller sends as X-Forwarded-Host, "absent" when it sends none
CallerMarkers == {"absent", "elsewhere.example"}

\* backend.URL values, as scheme, separator and authority
TargetURLs ==
    { <<sch, "://", h>> : sch \in {"http", "https"},
                          h \in {"backend1:3000", "backend2:3000"} }

\* url.Parse of a backend URL
Parse(rawURL) == [Scheme |-> rawURL[1], Host |-> rawURL[3]]

\* http.Header.Get: the value under the key, "" when the key is absent
HeaderGet(h, key) == IF key \in DOMAIN h THEN h[key] ELSE ""

\* http.Header.Set
HeaderSet(h, key, value) ==
    [k \in DOMAIN h \cup {key} |-> IF k = key THEN value ELSE h[k]]

\* the request the server built from what the caller sent
ServerRequest(host, marker, path) ==
    [Host |-> host,
     URL |-> [Scheme |-> "", Host |-> "", Path |-> path],
     Header |-> IF marker = "absent"
                THEN [k \in {"User-Agent"} |-> "curl"]
                ELSE [k \in {"User-Agent", "X-Forwarded-Host"} |->
                        IF k = "User-Agent" THEN "curl" ELSE marker]]

\* gateway.go:126-129
\*   r.URL.Host = target.Host
\*   r.URL.Scheme = target.Scheme
\*   r.Header.Set("X-Forwarded-Host", r.Header.Get("Host"))
\*   r.Host = target.Host
ModifyRequest(r, target) ==
    [r EXCEPT !.URL.Host = target.Host,
              !.URL.Scheme = target.Scheme,
              !.Header = HeaderSet(@, "X-Forwarded-Host",
                                   HeaderGet(r.Header, "Host")),
              !.Host = target.Host]

\* the director of httputil.NewSingleHostReverseProxy(target): scheme and
\* host of the outbound URL are the target's; Host and headers stay
Director(r, target) ==
    [r EXCEPT !.URL.Scheme = target.Scheme, !.URL.Host = target.Host]

\* proxyHandler from url.Parse through the rewrite of r
Rewrite ==
    /\ fw.pc = "inbound"
    /\ fw' = [fw EXCEPT !.pc = "modified",
                        !.target = Parse(fw.rawURL),
                        !.r = ModifyRequest(fw.r, Parse(fw.rawURL))]
    /\ UNCHANGED lbVars
    /\ UNCHANGED gwVars
    /\ UNCHANGED hcVars
    /\ UNCHANGED rwVars
    /\ UNCHANGED lcVars
    /\ UNCHANGED ccVars
    /\ UNCHANGED plVars
    /\ UNCHANGED glVars
    /\ UNCHANGED rrVars

\* proxy.ServeHTTP(rw, r): the request leaves for the backend
Send ==
    /\ fw.pc = "modified"
    /\ fw' = [fw EXCEPT !.pc = "outbound", !.r = Director(fw.r, fw.target)]
    /\ UNCHANGED lbVars
    /\ UNCHANGED gwVars
    /\ UNCHANGED hcVars
    /\ UNCHANGED rwVars
    /\ UNCHANGED lcVars
    /\ UNCHANGED ccVars
    /\ UNCHANGED plVars
    /\ UNCHANGED glVars
    /\ UNCHANGED rrVars

InitFW ==
    /\ backends = <<>>
    /\ currentIndex = 0
    /\ algorithm = "round_robin"
    /\ call = NoCall
    /\ downed = {}
    /\ requests = [t \in Tasks |-> IdleRequest]
    /\ burst = 0
    /\ tokens = 0
    /\ refilled = FALSE
    /\ probe = [i \in 1..MaxGwBackends |-> IdleProbe]
    /\ gauge = [n \in GaugeNames |-> -1]
    /\ rw = [w |-> NewResponseWriter(BaseWriter), issued |-> <<>>]
    /\ active = <<>>
    /\ cc = NoCc
    /\ \E host \in CallerHosts, marker \in CallerMarkers,
          path \in {"/api", "/health"}, rawURL \in TargetURLs :
          fw = [pc |-> "inbound",
                inbound |-> ServerRequest(host, marker, path),
                rawURL |-> rawURL,
                target |-> [Scheme |-> "", Host |-> ""],
                r |-> ServerRequest(host, marker, path)]
    /\ loop = NoLoop
    /\ gl = NoLocks
    /\ gap = <<>>

NextFW ==
    \/ Rewrite
    \/ Send

SpecFW == InitFW /\ [][NextFW]_vars

(***************************************************************************)
(* Properties of the LoadBalancer (checked under SpecLB).                  *)
(***************************************************************************)
\* the entry the last NextBackend call returned
Returned == backends[call.ret.idx]
ReturnedBackend == call.op = "NextBackend" /\ call.ret.kind = "backend"

\* C1: a NextBackend call returns none exactly when no entry is healthy at
\* the call; a backend it returns is an entry that is healthy at the call; a
\* call that returns none leaves the cursor alone, and so does the call
\* after it while no health flag has changed.
C1_NoneIffNoHealthy ==
    [][ call'.op = "NextBackend" =>
          /\ (call'.ret.kind = "nil")
                <=> (\A i \in 1..Len(backends) : ~backends[i].Healthy)
          /\ call'.ret.kind = "backend" =>
                /\ call'.ret.idx \in 1..Len(backends)
                /\ backends[call'.ret.idx].Healthy
          /\ call'.ret.kind = "nil" => currentIndex' = currentIndex
          /\ (call.op = "NextBackend" /\ call.ret.kind = "nil")
                => call'.ret.kind = "nil"
      ]_vars

\* C1 witness: NextBackend has returned none from a registry of two or more
\* entries, all unhealthy, under the random algorithm.
C1_Witness ==
    /\ call.op = "NextBackend" /\ call.ret.kind = "nil"
    /\ Len(backends) >= 2
    /\ \A i \in 1..Len(backends) : ~backends[i].Healthy
    /\ algorithm = "random"

\* C2: a backend whose name was last passed to SetBackendHealth with false
\* is never what NextBackend returns.
C2_DownedNeverReturned ==
    ReturnedBackend => Returned.Name \notin downed

\* C3: under round_robin, N consecutive NextBackend calls (N the number of
\* healthy backends, no health change between them) return every healthy
\* backend once, each the successor of the one before in registration order,
\* and the call after them returns what the first returned.  The run is the
\* call just made followed by the N calls that come next (RoundRobinRun).
C3_RoundRobinRotation ==
    (ReturnedBackend /\ algorithm = "round_robin") =>
        LET h == getHealthyBackendsLocked(backends)
            N == Len(h)
            run == <<call.ret.idx>> \o RoundRobinRun(h, currentIndex, N)
            Pos(e) == CHOOSE k \in 1..N : h[k] = e
        IN /\ { run[i] : i \in 1..N } = { h[k] : k \in 1..N }
           /\ \A i \in 1..(N - 1) : Pos(run[i + 1]) = (Pos(run[i]) % N) + 1
           /\ run[N + 1] = run[1]

\* C4: under weighted_round_robin, when the healthy weights are non-negative
\* and their total is positive, the entry returned for draw r is the one
\* whose slice [w_1+..+w_(k-1), w_1+..+w_k) holds r; entry k is returned for
\* exactly w_k of the draws, an entry of weight zero for none, and the
\* fallback to the first entry is not taken.
SliceOf(bs, h, r) ==
    { k \in 1..Len(h) : SumWeights(bs, h, k - 1) <= r /\ r < SumWeights(bs, h, k) }

WeightedCase ==
    /\ call.op = "NextBackend"
    /\ algorithm = "weighted_round_robin"
    /\ LET h == getHealthyBackendsLocked(backends) IN
       /\ \A k \in 1..Len(h) : backends[h[k]].Weight >= 0
       /\ TotalWeight(backends, h) > 0

C4_WeightedSlices ==
    WeightedCase =>
        LET h == getHealthyBackendsLocked(backends)
            T == TotalWeight(backends, h)
            Pick(r) == weightedRoundRobin(backends, h, currentIndex, r).ret
        IN /\ call.ret.kind = "backend"
           /\ ~call.ret.fallback
           /\ call.ret.draw \in 0..(T - 1)
           /\ SliceOf(backends, h, call.ret.draw) = { k \in 1..Len(h) : h[k] = call.ret.idx }
           /\ \A k \in 1..Len(h) :
                 Cardinality({ r \in 0..(T - 1) : Pick(r).idx = h[k] }) = backends[h[k]].Weight
           /\ \A r \in 0..(T - 1) : ~Pick(r).fallback /\ Pick(r).kind = "backend"
           /\ backends[call.ret.idx].Weight > 0

\* C4 witness: a weighted call over three healthy entries, one of weight
\* zero, that returned an entry other than the first.
C4_Witness ==
    /\ WeightedCase
    /\ LET h == getHealthyBackendsLocked(backends) IN
       /\ Len(h) = 3
       /\ \E k \in 1..3 : backends[h[k]].Weight = 0
       /\ call.ret.kind = "backend" /\ call.ret.idx # h[1]
       /\ call.ret.draw >= 2

(***************************************************************************)
(* Properties of the gateway (checked under Spec).                         *)
(***************************************************************************)
Min(a, b) == IF a <= b THEN a ELSE b

\* requests the limiter was asked about, and those it admitted
Consulted == { t \in Tasks : requests[t].gate \in {"allowed", "rejected"} }
Admitted == { t \in Tasks : requests[t].gate = "allowed" }

EventsOf(t, by) == SelectSeq(requests[t].events, LAMBDA e : e.by = by)

\* C5: while no token has accrued, of the k requests to non-exempt paths
\* that have reached the limiter exactly min(k, burst) were admitted,
\* whatever the interleaving of the request tasks.
C5_AdmittedIsMinOfBurst ==
    ~refilled => Cardinality(Admitted) = Min(Cardinality(Consulted), burst)

\* C5 witness: burst 1, no refill; one request was admitted and is still in
\* flight while a second one has been rejected.
C5_Witness ==
    /\ ~refilled /\ burst = 1
    /\ \E t1, t2 \in Tasks :
        /\ requests[t1].gate = "allowed"
        /\ requests[t1].pc \in {"routed", "forwarding"}
        /\ requests[t2].gate = "rejected"
        /\ requests[t2].status = 429

\* C6: a request whose path is /health or /metrics goes through the rate
\* limiter to the inner handler whatever the bucket holds, and the step
\* leaves the token count as it was.
C6_ExemptPathsBypass ==
    [][ \A t \in Tasks :
          ( /\ requests[t].pc = "idle"
            /\ requests'[t].pc # "idle"
            /\ requests'[t].path \in {"/health", "/metrics"} )
          => /\ requests'[t].inner
             /\ requests'[t].gate = "exempt"
             /\ requests'[t].status # 429
             /\ tokens' = tokens
      ]_vars

\* C6 witness: with a bucket that never holds a token, GET /metrics has been
\* answered 200 by the inner handler.
C6_Witness ==
    /\ burst = 0 /\ tokens = 0
    /\ \E t \in Tasks :
        /\ requests[t].path = "/metrics" /\ requests[t].method = "GET"
        /\ requests[t].inner
        /\ requests[t].pc = "done" /\ requests[t].status = 200

\* C7: a request the limiter rejects is answered 429 with Retry-After 60,
\* the rate-limited event is recorded once, and neither the inner handler
\* nor anything behind it runs for that request.
C7_RejectionResponse ==
    \A t \in Tasks :
        requests[t].gate = "rejected" =>
            /\ requests[t].pc = "done"
            /\ requests[t].status = 429
            /\ requests[t].retryAfter = "60"
            /\ EventsOf(t, "ratelimit") = <<RecordRateLimit>>
            /\ ~requests[t].inner
            /\ requests[t].handler = "none"
            /\ requests[t].selections = 0
            /\ requests[t].forwards = 0
            /\ EventsOf(t, "proxy") = <<>>

\* C7 witness: a request was rejected after another one took the only token.
C7_Witness ==
    /\ burst = 1
    /\ \E t1, t2 \in Tasks :
        /\ requests[t1].gate = "allowed"
        /\ requests[t2].gate = "rejected"
        /\ requests[t2].path = "/api"

\* C8: GET /health answers 200 and {"status":"healthy","healthy_backends":N}
\* when N > 0 backends are healthy as the handler runs, and 503 and
\* {"status":"unhealthy","healthy_backends":0} when none is.
C8_HealthResponse ==
    [][ \A t \in Tasks :
          ( /\ requests[t].pc = "routed"
            /\ requests[t].handler = "health"
            /\ requests'[t].pc = "done" )
          => LET N == Cardinality({ i \in 1..Len(backends) : backends[i].Healthy })
             IN /\ requests'[t].method = "GET" /\ requests'[t].path = "/health"
                /\ requests'[t].body.healthy_backends = N
                /\ N > 0 => /\ requests'[t].status = 200
                            /\ requests'[t].body.status = "healthy"
                /\ N = 0 => /\ requests'[t].status = 503
                            /\ requests'[t].body.status = "unhealthy"
      ]_vars

\* C8 witness: GET /health was answered 503 by a gateway with two backends.
C8_Witness ==
    /\ Len(backends) = 2
    /\ \E t \in Tasks :
        /\ requests[t].handler = "health" /\ requests[t].pc = "done"
        /\ requests[t].status = 503
        /\ requests[t].body = [status |-> "unhealthy", healthy_backends |-> 0]

\* C9: when no backend is healthy as the proxy handler runs, the request is
\* answered 503, the proxy handler records the one outcome (503, "none"),
\* no backend outcome, and nothing is forwarded.
C9_NoHealthyBackend ==
    [][ \A t \in Tasks :
          ( /\ requests[t].pc = "routed"
            /\ requests[t].handler = "proxy"
            /\ requests'[t].pc # "routed"
            /\ \A i \in 1..Len(backends) : ~backends[i].Healthy )
          => /\ requests'[t].pc = "done"
             /\ requests'[t].status = 503
             /\ SelectSeq(requests'[t].events, LAMBDA e : e.by = "proxy")
                    = <<RecordRequest("proxy", "503", "none")>>
             /\ requests'[t].forwards = 0
             /\ requests'[t].backend = 0
      ]_vars

\* C9 witness: an admitted request to /api was answered 503 by a gateway
\* whose two backends are both unhealthy.
C9_Witness ==
    /\ Len(backends) = 2
    /\ \A i \in 1..Len(backends) : ~backends[i].Healthy
    /\ \E t \in Tasks :
        /\ requests[t].gate = "allowed" /\ requests[t].path = "/api"
        /\ requests[t].handler = "proxy" /\ requests[t].pc = "done"
        /\ requests[t].status = 503
        /\ requests[t].selections = 1

\* C10: a request that has reached the proxy handler's selection or its
\* forwarding was admitted by the limiter and took a token.
C10_ProxiedWasAdmitted ==
    \A t \in Tasks :
        (requests[t].selections > 0 \/ requests[t].pc = "forwarding"
            \/ requests[t].forwards > 0)
        => requests[t].gate = "allowed"

(***************************************************************************)
(* Properties of the registry's setters (checked under SpecLB).            *)
(***************************************************************************)
\* C11: the stored algorithm is always one of round_robin,
\* weighted_round_robin, random, least_connections; a SetAlgorithm call with
\* any other name stores round_robin whatever was stored before, a call with
\* one of the four stores it, so a NextBackend call never runs under an
\* unrecognized algorithm.
C11_AlgorithmAlwaysValid ==
    /\ [](algorithm \in AlgorithmNames)
    /\ [][ /\ call'.op = "SetAlgorithm" =>
                /\ call'.arg.name \notin AlgorithmNames
                        => algorithm' = "round_robin"
                /\ call'.arg.name \in AlgorithmNames
                        => algorithm' = call'.arg.name
                /\ UNCHANGED <<backends, currentIndex>>
           /\ call'.op = "NextBackend" => algorithm \in AlgorithmNames
         ]_vars

\* C11 witness: SetAlgorithm was called with "invalid_algorithm" on a
\* registry of two backends and round_robin is stored.
C11_Witness ==
    /\ call.op = "SetAlgorithm"
    /\ call.arg.name = "invalid_algorithm"
    /\ algorithm = "round_robin"
    /\ Len(backends) = 2

\* C12: SetBackendHealth(name, h) applied again to the state it has just
\* produced changes nothing: the health flags, the weights, the cursor and
\* the algorithm are those reached after the first application, for h true
\* and h false and for every name.
C12_SetHealthIdempotent ==
    /\ [](\A name \in HealthNames, h \in BOOLEAN :
            LET once == SetBackendHealthResult(backends, name, h) IN
            SetBackendHealthResult(once, name, h) = once)
    /\ [][ ( /\ call.op = "SetBackendHealth"
             /\ call'.op = "SetBackendHealth"
             /\ call'.arg = call.arg )
           => UNCHANGED <<backends, currentIndex, algorithm>>
         ]_vars

\* C12 witness: SetBackendHealth("backend2", false) was called on a registry
\* in which backend2 is already unhealthy after it was healthy at
\* construction, next to a healthy entry.
C12_Witness ==
    /\ call.op = "SetBackendHealth"
    /\ call.arg = [name |-> "backend2", healthy |-> FALSE]
    /\ \E i, j \in 1..Len(backends) :
          /\ backends[i].Name = "backend2" /\ ~backends[i].Healthy
          /\ backends[j].Name = "backend1" /\ backends[j].Healthy
    /\ SetBackendHealthResult(backends, "backend2", FALSE) = backends

\* C13: a SetBackendHealth(name, h) call leaves the number and order of the
\* entries, every name, target and weight, the cursor and the algorithm as
\* they were; it changes the healthy flag of at most one entry, that entry is
\* called name and its flag becomes h; when no entry is called name nothing
\* changes, and the call returns normally.
C13_SetHealthFrame ==
    [][ call'.op = "SetBackendHealth" =>
          LET name == call'.arg.name
              changed == { i \in 1..Len(backends) :
                              backends'[i].Healthy # backends[i].Healthy }
          IN /\ Len(backends') = Len(backends)
             /\ \A i \in 1..Len(backends) :
                   /\ backends'[i].Name = backends[i].Name
                   /\ backends'[i].Weight = backends[i].Weight
                   /\ backends'[i].UrlOk = backends[i].UrlOk
             /\ Cardinality(changed) <= 1
             /\ \A i \in changed :
                   /\ backends[i].Name = name
                   /\ backends'[i].Healthy = call'.arg.healthy
             /\ (\A i \in 1..Len(backends) : backends[i].Name # name)
                   => backends' = backends
             /\ UNCHANGED <<currentIndex, algorithm>>
             /\ call'.ret = NoRet
      ]_vars

\* C13 witness: SetBackendHealth was called with a name no entry carries, on
\* a registry of three entries of which one is unhealthy.
C13_Witness ==
    /\ call.op = "SetBackendHealth"
    /\ call.arg.name = "ghost"
    /\ Len(backends) = 3
    /\ \E i \in 1..3 : ~backends[i].Healthy
    /\ \E i \in 1..3 : backends[i].Healthy

\* C14: the registry never holds two entries with the same backend name,
\* whatever list New was handed, and after SetBackendHealth(name, h) every
\* entry called name has the flag h.
C14_UniqueNames ==
    /\ \A i, j \in 1..Len(backends) :
          backends[i].Name = backends[j].Name => i = j
    /\ call.op = "SetBackendHealth" =>
          \A i \in 1..Len(backends) :
              backends[i].Name = call.arg.name
                  => backends[i].Healthy = call.arg.healthy

(***************************************************************************)
(* Properties of construction and of the health checks (checked under      *)
(* SpecHC).                                                                *)
(***************************************************************************)
\* the entries NextBackend selects among
Eligible(bs) ==
    LET h == getHealthyBackendsLocked(bs) IN { h[k] : k \in 1..Len(h) }

\* the classification the rule "healthy iff a response with a status in
\* [200,300)" gives a probe outcome
InSuccessRange(o) == o.err = "none" /\ o.status \in 200..299

\* C15: right after construction every configured backend is in the
\* registry, healthy and eligible, with the weight of its descriptor, the
\* algorithm is round_robin and the cursor is 0; a backend stops being
\* eligible only in a step in which a probe of a backend of that name
\* classifies it unhealthy.
C15_FreshAndEligible ==
    /\ \E cfg \in SeqsUpTo(GatewayPool, MaxGwBackends) :
          /\ Len(backends) = Len(cfg)
          /\ \A i \in 1..Len(cfg) :
                /\ backends[i].Name = cfg[i].Name
                /\ backends[i].Weight = cfg[i].Weight
                /\ backends[i].Healthy
          /\ Eligible(backends) = 1..Len(cfg)
    /\ algorithm = "round_robin"
    /\ currentIndex = 0
    /\ [][ \A i \in 1..Len(backends) :
              (i \in Eligible(backends) /\ i \notin Eligible(backends'))
              => \E j \in 1..Len(backends) :
                    /\ backends[j].Name = backends[i].Name
                    /\ probe[j].pc = "idle"
                    /\ probe'[j].pc = "classified"
                    /\ ~probe'[j].isHealthy
         ]_vars

\* C15 witness: of two backends healthy since construction, one has just
\* been classified unhealthy by its first probe and the other, not yet
\* probed, is still eligible.
C15_Witness ==
    /\ Len(backends) = 2
    /\ probe[1].pc = "classified" /\ ~probe[1].isHealthy
    /\ probe[2].pc = "idle"
    /\ \A n \in GaugeNames : gauge[n] = -1
    /\ Eligible(backends) = {2}

\* C16: a probe writes one classification: true exactly when it got a
\* response with a status in [200,300), false when building the request
\* failed, the exchange failed or timed out, or the status was any other.
\* It passes that value to SetBackendHealth once, for the probed backend's
\* name, and afterwards sets the gauge of that name to the same value.
C16_ProbeClassification ==
    [][ \A i \in 1..MaxGwBackends :
          /\ (probe[i].pc = "idle" /\ probe'[i].pc = "classified") =>
                LET name == backends[i].Name
                    v == InSuccessRange(probe'[i].outcome)
                IN /\ probe'[i].isHealthy = v
                   /\ probe'[i].calls = <<[fn |-> "SetBackendHealth",
                                           name |-> name, value |-> v]>>
                   /\ \E k \in 1..Len(backends) :
                         backends[k].Name = name /\ backends'[k].Healthy = v
                   /\ \A k \in 1..Len(backends) :
                         backends'[k].Healthy # backends[k].Healthy
                             => backends[k].Name = name
                   /\ gauge' = gauge
          /\ (probe[i].pc = "classified" /\ probe'[i].pc = "idle") =>
                LET name == backends[i].Name
                    v == InSuccessRange(probe[i].outcome)
                IN /\ probe[i].calls = <<[fn |-> "SetBackendHealth",
                                          name |-> name, value |-> v]>>
                   /\ gauge'[name] = IF v THEN 1 ELSE 0
                   /\ \A n \in GaugeNames \ {name} : gauge'[n] = gauge[n]
                   /\ backends' = backends
      ]_vars

\* C16 witness: an earlier probe of backend1 found it healthy and set its
\* gauge to 1; the next probe got status 300 and has written unhealthy to
\* the registry, the gauge not yet.
C16_Witness ==
    \E i \in 1..Len(backends) :
        /\ backends[i].Name = "backend1"
        /\ gauge["backend1"] = 1
        /\ probe[i].pc = "classified"
        /\ probe[i].outcome = [err |-> "none", status |-> 300]
        /\ ~backends[i].Healthy

(***************************************************************************)
(* Properties of the responses (checked under Spec).                       *)
(***************************************************************************)
\* a request answered by the gateway's own code, nothing forwarded, with a
\* status outside [200,300)
OwnNon2xx(t) ==
    /\ requests[t].pc = "done"
    /\ requests[t].forwards = 0
    /\ requests[t].status \notin 200..299

\* C17: a non-2xx response the gateway produces itself is either 500 for a
\* malformed backend target or 503 for no healthy backend; an admission
\* rejection does not reach the caller as a non-2xx response.
C17_OnlyFaultAndExhaustion ==
    \A t \in Tasks :
        /\ OwnNon2xx(t) =>
              /\ requests[t].handler \in {"proxy", "health"}
              /\ requests[t].status \in {500, 503}
        /\ (requests[t].pc = "done" /\ requests[t].gate = "rejected")
              => requests[t].status \in 200..299

\* C17 as amended: a non-2xx response the gateway produces itself is 429 for
\* an admission rejection, 500 for a malformed target of the selected
\* backend, or 503 for no healthy backend (from the proxy handler and from
\* GET /health); a rejection is always answered 429; a step in which a
\* probe changes a health flag changes no request's response.
C17_RejectionFaultExhaustion ==
    /\ [](\A t \in Tasks :
            /\ OwnNon2xx(t) =>
                  \/ requests[t].gate = "rejected" /\ requests[t].status = 429
                  \/ /\ requests[t].handler = "proxy"
                     /\ requests[t].status = 503
                     /\ requests[t].backend = 0
                  \/ /\ requests[t].handler = "proxy"
                     /\ requests[t].status = 500
                     /\ requests[t].backend \in 1..Len(backends)
                     /\ ~backends[requests[t].backend].UrlOk
                  \/ /\ requests[t].handler = "health"
                     /\ requests[t].status = 503
            /\ (requests[t].pc = "done" /\ requests[t].gate = "rejected")
                  => requests[t].status = 429)
    /\ [][ backends' # backends => requests' = requests ]_vars

\* C17 witness: one request was rejected with 429 and another was answered
\* 500 because the selected backend's target does not parse.
C17_Witness ==
    \E t1, t2 \in Tasks :
        /\ requests[t1].pc = "done" /\ requests[t1].gate = "rejected"
        /\ requests[t1].status = 429
        /\ requests[t2].pc = "done" /\ requests[t2].handler = "proxy"
        /\ requests[t2].status = 500 /\ requests[t2].forwards = 0

\* C19: the chain is logging, metrics, rate limiter, router: the rate
\* limiter's and the handlers' events come first, then the metrics layer's
\* outcome, then the logging layer's record, both emitted once the request
\* is answered; for every answered request, a rejected one included, the
\* status in the log record and the status in the metrics layer's outcome
\* are the status written to the caller (429 on rejection).
C19_LayersSeeFinalStatus ==
    \A t \in Tasks :
        LET ev == requests[t].events
            n == Len(ev)
            final == Itoa(requests[t].status)
        IN
        /\ requests[t].pc # "done" =>
              EventsOf(t, "logging") = <<>> /\ EventsOf(t, "metrics_mw") = <<>>
        /\ requests[t].pc = "done" =>
              /\ Bottom(requests[t].w).wroteHeader
              /\ Bottom(requests[t].w).status = requests[t].status
              /\ EventsOf(t, "logging") = <<LogRequest(final)>>
              /\ ev[n] = LogRequest(final)
              /\ requests[t].path # "/metrics" =>
                    /\ EventsOf(t, "metrics_mw")
                          = <<RecordRequest("metrics_mw", final, "gateway")>>
                    /\ ev[n - 1] = RecordRequest("metrics_mw", final, "gateway")
              /\ requests[t].path = "/metrics" =>
                    EventsOf(t, "metrics_mw") = <<>>
              /\ requests[t].gate = "rejected" =>
                    ev = <<RecordRateLimit,
                           RecordRequest("metrics_mw", "429", "gateway"),
                           LogRequest("429")>>

\* C19 witness: a rejected request whose log record and metrics outcome
\* both carry 429, next to a forwarded request answered 502.
C19_Witness ==
    \E t1, t2 \in Tasks :
        /\ requests[t1].pc = "done" /\ requests[t1].gate = "rejected"
        /\ requests[t1].status = 429
        /\ EventsOf(t1, "logging") = <<LogRequest("429")>>
        /\ EventsOf(t1, "metrics_mw")
              = <<RecordRequest("metrics_mw", "429", "gateway")>>
        /\ requests[t2].pc = "done" /\ requests[t2].forwards = 1
        /\ requests[t2].status = 502
        /\ EventsOf(t2, "logging") = <<LogRequest("502")>>

(***************************************************************************)
(* Properties of the response-status interceptor (checked under SpecRW).   *)
(***************************************************************************)
\* the status the first call of a sequence puts on the wire: the code of a
\* leading WriteHeader, 200 for a leading Write, 200 when nothing was called
FirstWritten(calls) ==
    IF calls = <<>> THEN 200
    ELSE IF calls[1].fn = "WriteHeader" THEN calls[1].code
    ELSE 200

\* C18: after any sequence of WriteHeader and Write calls the interceptor
\* reports the first status written, which is the status the underlying
\* writer sends, 200 when no status was written explicitly, and the
\* underlying writer has received every call unchanged, in order.
C18_ReportsFirstStatus ==
    /\ StatusCode(rw.w) = Itoa(FirstWritten(rw.issued))
    /\ Bottom(rw.w).wroteHeader
          => StatusCode(rw.w) = Itoa(Bottom(rw.w).status)
    /\ Bottom(rw.w).received = rw.issued

(***************************************************************************)
(* Properties of GetStats (checked under SpecLB).                          *)
(***************************************************************************)
\* C20: whatever SetBackendHealth and SetAlgorithm calls came before it, a
\* GetStats result describes the registry state it was taken in:
\* healthy_backends + unhealthy_backends = total_backends, healthy_backends
\* counts the entries whose "healthy" field in the result is true, the
\* per-backend fields are those of the registry's entries in order, and
\* algorithm is the stored algorithm.
C20_StatsOneState ==
    call.op = "GetStats" =>
        LET st == call.stats IN
        /\ st.healthy_backends + st.unhealthy_backends = st.total_backends
        /\ st.healthy_backends
              = Cardinality({ i \in DOMAIN st.backends : st.backends[i].healthy })
        /\ st.total_backends = Len(st.backends)
        /\ st.algorithm = algorithm
        /\ Len(st.backends) = Len(backends)
        /\ \A i \in 1..Len(backends) :
              /\ st.backends[i].name = backends[i].Name
              /\ st.backends[i].healthy = backends[i].Healthy
              /\ st.backends[i].weight = backends[i].Weight

\* C20 witness: GetStats was called after SetBackendHealth and SetAlgorithm
\* calls left three backends, one of them unhealthy, under random.
C20_Witness ==
    /\ call.op = "GetStats"
    /\ call.stats.total_backends = 3
    /\ call.stats.healthy_backends = 2
    /\ call.stats.unhealthy_backends = 1
    /\ call.stats.algorithm = "random"
    /\ downed # {}

(***************************************************************************)
(* Properties of the snapshot and of the selection modes (checked under    *)
(* SpecLB).                                                                *)
(***************************************************************************)
\* C21: GetHealthyBackends returns the entries whose healthy flag is true at
\* the call, each once, in registration order, and leaves the registry, the
\* cursor and the algorithm as they were.
C21_SnapshotExact ==
    [][ call'.op = "GetHealthyBackends" =>
          LET snap == call'.snapshot IN
          /\ { snap[k] : k \in 1..Len(snap) }
                = { i \in 1..Len(backends) : backends[i].Healthy }
          /\ \A k \in 1..(Len(snap) - 1) : snap[k] < snap[k + 1]
          /\ UNCHANGED <<backends, currentIndex, algorithm>>
      ]_vars

\* C21 witness: GetHealthyBackends returned the first and the third of three
\* entries, the second being unhealthy.
C21_Witness ==
    /\ call.op = "GetHealthyBackends"
    /\ Len(backends) = 3
    /\ ~backends[2].Healthy
    /\ call.snapshot = <<1, 3>>

C24_ZeroTotalIsRoundRobin ==
    [][ ( /\ call'.op = "NextBackend"
          /\ algorithm = "weighted_round_robin"
          /\ Len(getHealthyBackendsLocked(backends)) > 0
          /\ TotalWeight(backends, getHealthyBackendsLocked(backends)) = 0 )
        => LET h == getHealthyBackendsLocked(backends) IN
           /\ call'.ret.kind = "backend"
           /\ call'.ret.idx = h[(currentIndex % Len(h)) + 1]
           /\ call'.ret.draw = -1
           /\ ~call'.ret.fallback
           /\ currentIndex' = IF currentIndex + 1 >= CursorWrap THEN 0
                               ELSE currentIndex + 1
      ]_vars

\* C24 witness: a weighted call over two healthy entries of weight zero
\* returned the second one.
C24_Witness ==
    /\ call.op = "NextBackend"
    /\ algorithm = "weighted_round_robin"
    /\ LET h == getHealthyBackendsLocked(backends) IN
       /\ Len(h) = 2
       /\ \A k \in 1..2 : backends[h[k]].Weight = 0
       /\ call.ret.idx = h[2]
    /\ currentIndex = 2

\* C25: the cursor is always in 0..999,999; a round-robin selection moves it
\* up by one, or to 0 from 999,999; nothing else moves it.
C25_CursorInRange ==
    /\ [](currentIndex \in 0..(CursorWrap - 1))
    /\ [][ \/ currentIndex' = currentIndex
           \/ /\ call'.op = "NextBackend"
              /\ call'.ret.kind = "backend"
              /\ algorithm \in {"round_robin", "least_connections"}
                    \/ ( /\ algorithm = "weighted_round_robin"
                         /\ TotalWeight(backends,
                                getHealthyBackendsLocked(backends)) = 0 )
              /\ \/ currentIndex < CursorWrap - 1
                       /\ currentIndex' = currentIndex + 1
                 \/ currentIndex = CursorWrap - 1 /\ currentIndex' = 0
         ]_vars

\* C25 witness: a round-robin selection made at cursor 999,999 has reset
\* the cursor to 0.
C25_Witness ==
    /\ call.op = "NextBackend"
    /\ call.ret.kind = "backend"
    /\ algorithm = "round_robin"
    /\ currentIndex = 0
    /\ Len(backends) = 3
    /\ call.ret.idx = ((CursorWrap - 1) % 3) + 1

(***************************************************************************)
(* Property of least_connections with clients (checked under SpecLC).      *)
(***************************************************************************)
\* C22: under least_connections, NextBackend hands each request to a healthy
\* backend with the fewest active connections at that moment.
C22_FewestActive ==
    [][ \A i \in 1..Len(backends) :
          active'[i] > active[i]
          => /\ backends[i].Healthy
             /\ \A j \in 1..Len(backends) :
                   backends[j].Healthy => active[i] <= active[j]
      ]_vars

(***************************************************************************)
(* Properties of concurrent callers (checked under SpecCC).                *)
(***************************************************************************)
\* the calls that have returned were all NextBackend calls, and no other
\* call is in progress
OnlySelections ==
    /\ \A k \in 1..Len(cc.log) : cc.log[k].op = "NextBackend"
    /\ \A c \in Callers : cc.pcs[c].pc # "held"

\* how often entry x was returned by the calls of the log
TimesReturned(x) ==
    Cardinality({ k \in 1..Len(cc.log) : cc.log[k].ret.idx = x })

\* how often x occurs in sequence s
TimesIn(s, x) == Cardinality({ k \in 1..Len(s) : s[k] = x })

\* the log's calls returned what k sequential round-robin calls return
SameAsSequential(k) ==
    LET run == RoundRobinRun(getHealthyBackendsLocked(backends), cc.start, k)
    IN \A x \in 0..Len(backends) : TimesReturned(x) = TimesIn(run, x)

\* C26 as stated: with a stable healthy set, k concurrent NextBackend calls
\* under round_robin leave the cursor advanced by exactly k, modulo the
\* reset, and return the backends k sequential calls return.
C26_NoLostUpdate ==
    OnlySelections =>
        /\ currentIndex = (cc.start + Len(cc.log)) % CursorWrap
        /\ SameAsSequential(Len(cc.log))

\* C26 amended: with a stable healthy set that is not empty, k concurrent
\* NextBackend calls under round_robin leave the cursor advanced by exactly
\* k, modulo the reset, and return the backends k sequential calls return;
\* with an empty healthy set every call returns none and the cursor stays.
C26_NoLostSelection ==
    OnlySelections =>
        LET k == Len(cc.log)
            h == getHealthyBackendsLocked(backends)
        IN
        /\ Len(h) > 0 => currentIndex = (cc.start + k) % CursorWrap
        /\ Len(h) = 0 =>
              /\ currentIndex = cc.start
              /\ \A j \in 1..k : cc.log[j].ret.kind = "nil"
        /\ SameAsSequential(k)

\* C26 witness: three concurrent NextBackend calls on two backends, begun
\* at cursor 999,999, have returned; the cursor stands at 2.
C26_Witness ==
    /\ OnlySelections
    /\ Len(cc.log) = 3
    /\ Len(backends) = 2
    /\ cc.start = CursorWrap - 1
    /\ currentIndex = 2
    /\ TimesReturned(2) = 2

\* the registry, the cursor and the algorithm as New left them
Constructed ==
    [backends |-> [i \in 1..Len(backends) |->
                      [backends[i] EXCEPT !.Healthy = TRUE]],
     currentIndex |-> cc.start,
     algorithm |-> "round_robin"]

\* the registry, the cursor and the algorithm after call e has run alone
\* in state st
After(st, e) ==
    IF e.op = "NextBackend"
    THEN [st EXCEPT !.currentIndex =
            NextBackendResult(st.backends, st.algorithm, st.currentIndex,
                              e.ret.draw).cursor]
    ELSE IF e.op = "SetBackendHealth"
    THEN [st EXCEPT !.backends =
            SetBackendHealthResult(st.backends, e.arg.name, e.arg.healthy)]
    ELSE IF e.op = "SetAlgorithm"
    THEN [st EXCEPT !.algorithm = SetAlgorithmResult(e.arg.name)]
    ELSE st

\* call e returned what it returns when it runs alone in state st
AnswersAs(st, e) ==
    IF e.op = "NextBackend"
    THEN /\ e.ret.draw \in Draws(st.backends, st.algorithm)
         /\ e.ret = NextBackendResult(st.backends, st.algorithm,
                                      st.currentIndex, e.ret.draw).ret
    ELSE IF e.op = "GetHealthyBackends"
    THEN e.snapshot = getHealthyBackendsLocked(st.backends)
    ELSE IF e.op = "GetStats"
    THEN e.stats = GetStatsResult(st.backends, st.algorithm)
    ELSE TRUE

\* the calls log[k..] run one after the other from state st return what
\* the log says and end in the present state
RECURSIVE Sequential(_, _, _)
Sequential(st, log, k) ==
    IF k > Len(log)
    THEN st = [backends |-> backends, currentIndex |-> currentIndex,
               algorithm |-> algorithm]
    ELSE /\ AnswersAs(st, log[k])
         /\ Sequential(After(st, log[k]), log, k + 1)

\* C27: every concurrent execution of the five methods is equivalent to a
\* sequential one (the order in which the calls returned); two
\* SetBackendHealth calls on different registered names both take effect;
\* a NextBackend call answers from one registry state.
C27_Linearizable ==
    /\ Sequential(Constructed, cc.log, 1)
    /\ \A c \in Callers, d \in Callers :
          ( /\ cc.pcs[c].pc = "done" /\ cc.pcs[c].op = "SetBackendHealth"
            /\ cc.pcs[d].pc = "done" /\ cc.pcs[d].op = "SetBackendHealth"
            /\ cc.pcs[c].arg.name # cc.pcs[d].arg.name
            /\ \A e \in Callers \ {c, d} :
                  cc.pcs[e].op # "SetBackendHealth" )
          => \A i \in 1..Len(backends) :
                i = FindByName(backends, cc.pcs[c].arg.name, 1)
                => backends[i].Healthy = cc.pcs[c].arg.healthy

\* C27 witness: SetBackendHealth(backend1, false), SetBackendHealth(backend2,
\* false) and NextBackend ran at the same time on a registry of these two
\* backends; NextBackend returned last and found nothing healthy.
C27_Witness ==
    /\ Len(cc.log) = 3
    /\ Len(backends) = 2
    /\ cc.log[1].op = "SetBackendHealth" /\ cc.log[1].arg.name = "backend2"
    /\ cc.log[2].op = "SetBackendHealth" /\ cc.log[2].arg.name = "backend1"
    /\ ~cc.log[1].arg.healthy /\ ~cc.log[2].arg.healthy
    /\ cc.log[3].op = "NextBackend" /\ cc.log[3].ret.kind = "nil"
    /\ \A i \in 1..2 : ~backends[i].Healthy

(***************************************************************************)
(* Properties of the proxy handler's bookkeeping (checked under Spec).     *)
(***************************************************************************)
\* C28: a request the limiter rejects does no backend work: NextBackend is
\* not called for it, the step that rejects it leaves the registry, the
\* cursor and the algorithm as they were, and the proxy handler records no
\* outcome for it, neither with a backend's name nor with "none".
C28_RejectedDoesNoBackendWork ==
    /\ [](\A t \in Tasks :
            requests[t].gate = "rejected"
            => /\ requests[t].selections = 0
               /\ requests[t].forwards = 0
               /\ requests[t].backend = 0
               /\ ~requests[t].inner
               /\ requests[t].pc = "done"
               /\ EventsOf(t, "proxy") = <<>>)
    /\ [][ \A t \in Tasks :
             (requests[t].gate # "rejected" /\ requests'[t].gate = "rejected")
             => UNCHANGED <<backends, currentIndex, algorithm>>
         ]_vars

\* C28 witness: one request was proxied and moved the cursor; the other
\* was rejected with 429 and has no selection.
C28_Witness ==
    /\ requests["t1"].gate = "allowed"
    /\ requests["t1"].selections = 1
    /\ currentIndex = 1
    /\ requests["t2"].gate = "rejected"
    /\ requests["t2"].status = 429
    /\ requests["t2"].selections = 0

\* requests that passed the limiter, or were exempt from it, and were
\* routed to the proxy handler
Proxied ==
    { t \in Tasks : /\ requests[t].gate \in {"allowed", "exempt"}
                    /\ requests[t].handler = "proxy" }

\* C29: an admitted proxied request makes exactly one NextBackend
\* selection; when the target of the selected backend does not parse, the
\* request ends with 500, recorded once under that backend's name, without
\* a forward and without another selection.
C29_OneSelectionNoRetry ==
    \A t \in Proxied :
        /\ requests[t].pc = "routed" => requests[t].selections = 0
        /\ requests[t].pc \in {"forwarding", "done"}
              => requests[t].selections = 1
        /\ ( /\ requests[t].pc = "done"
             /\ requests[t].backend # 0
             /\ ~backends[requests[t].backend].UrlOk )
           => /\ requests[t].status = 500
              /\ requests[t].forwards = 0
              /\ EventsOf(t, "proxy")
                    = << [by |-> "proxy", kind |-> "request",
                          status |-> "500",
                          backend |-> backends[requests[t].backend].Name] >>

\* C29 witness: a proxied request whose selected backend has a target that
\* does not parse has ended with 500 after one selection.
C29_Witness ==
    \E t \in Proxied :
        /\ requests[t].pc = "done"
        /\ requests[t].backend = 2
        /\ ~backends[2].UrlOk
        /\ requests[t].status = 500
        /\ requests[t].selections = 1

\* C30: while a request is being forwarded the proxy handler has recorded
\* nothing for it; once the forward has returned it has recorded exactly
\* one request outcome and one backend outcome, in this order, both with
\* the name of the backend selected for the request and with the status
\* the response ended with.
C30_TwoOutcomesAfterForward ==
    \A t \in Tasks :
        /\ requests[t].forwards <= 1
        /\ requests[t].pc = "forwarding"
              => requests[t].forwards = 0 /\ EventsOf(t, "proxy") = <<>>
        /\ requests[t].forwards = 1
              => LET name == backends[requests[t].backend].Name
                     status == Itoa(requests[t].status)
                 IN /\ requests[t].pc = "done"
                    /\ EventsOf(t, "proxy")
                          = << [by |-> "proxy", kind |-> "request",
                                status |-> status, backend |-> name],
                               [by |-> "proxy", kind |-> "backend",
                                status |-> status, backend |-> name] >>

\* C30 witness: a request forwarded to backend2 came back with 502 and both
\* outcomes are recorded.
C30_Witness ==
    \E t \in Tasks :
        /\ requests[t].pc = "done"
        /\ requests[t].forwards = 1
        /\ requests[t].status = 502
        /\ backends[requests[t].backend].Name = "backend2"
        /\ Len(EventsOf(t, "proxy")) = 2

(***************************************************************************)
(* Property of the limiter's bucket (checked under Spec).                  *)
(***************************************************************************)
\* C31: the bucket always holds between 0 and burst tokens; an allowed call
\* takes exactly one, a rejected call takes none, and a refill never lifts
\* the count above burst.
C31_TokensWithinBurst ==
    /\ [](tokens \in 0..burst)
    /\ [][ /\ \A t \in Tasks :
               (requests[t].gate = "none" /\ requests'[t].gate = "allowed")
               => tokens' = tokens - 1
           /\ \A t \in Tasks :
               (requests[t].gate = "none" /\ requests'[t].gate = "rejected")
               => tokens' = tokens /\ ~Allow(tokens)
           /\ tokens' > tokens => tokens' = tokens + 1 /\ tokens' <= burst
         ]_vars

\* C31 witness: with burst 1 one request was allowed, the next was rejected
\* on the empty bucket, and a refill has brought the bucket back to 1.
C31_Witness ==
    /\ burst = 1
    /\ requests["t1"].gate = "allowed"
    /\ requests["t2"].gate = "rejected"
    /\ refilled
    /\ tokens = 1

(***************************************************************************)
(* Frame and safety of NextBackend (checked under SpecLB).                 *)
(***************************************************************************)
\* the call about to run takes the round-robin path
RoundRobinPath ==
    \/ algorithm \in {"round_robin", "least_connections"}
    \/ /\ algorithm = "weighted_round_robin"
       /\ TotalWeight(backends, getHealthyBackendsLocked(backends)) = 0

\* C34: NextBackend changes no healthy flag, no weight, neither the entries
\* nor their order, nor the algorithm; it changes the cursor only on the
\* round-robin path, so a random pick and a weighted pick with a positive
\* total leave the whole registry state as it was.
C34_NextBackendFrame ==
    [][ call'.op = "NextBackend" =>
          /\ backends' = backends
          /\ algorithm' = algorithm
          /\ currentIndex' # currentIndex => RoundRobinPath
          /\ ~RoundRobinPath =>
                UNCHANGED <<backends, currentIndex, algorithm>>
      ]_vars

\* C34 witness: a random pick over three healthy backends returned the
\* third and the cursor still stands at 0.
C34_Witness ==
    /\ call.op = "NextBackend"
    /\ algorithm = "random"
    /\ Len(getHealthyBackendsLocked(backends)) = 3
    /\ call.ret.kind = "backend" /\ call.ret.draw = 2 /\ call.ret.idx = 3
    /\ currentIndex = 0

\* C36: for every list New accepts, a weighted NextBackend call with at
\* least one healthy backend returns normally, with a healthy backend.
C36_WeightedCompletes ==
    [][ ( /\ call'.op = "NextBackend"
          /\ algorithm = "weighted_round_robin"
          /\ Len(getHealthyBackendsLocked(backends)) > 0 )
        => /\ call'.ret.kind = "backend"
           /\ backends[call'.ret.idx].Healthy
      ]_vars

(***************************************************************************)
(* Property of the metrics layer's outcome (checked under Spec).           *)
(***************************************************************************)
\* the request outcomes of task t that carry backend label b
OutcomesUnder(t, b) ==
    SelectSeq(requests[t].events,
              LAMBDA e : e.kind = "request" /\ e.backend = b)

\* C39: for an answered request whose path is not /metrics the metrics
\* layer has recorded exactly one outcome, labelled "gateway", with the
\* final status, after everything the inner layers recorded; for a request
\* to /metrics it has recorded none; a forwarded request is counted once
\* under "gateway" and once under the name of its backend.
C39_GatewayOutcomeOnce ==
    \A t \in Tasks :
        requests[t].pc = "done" =>
            LET ev == requests[t].events
                final == Itoa(requests[t].status)
                mine == [by |-> "metrics_mw", kind |-> "request",
                         status |-> final, backend |-> "gateway"]
            IN
            /\ requests[t].path # "/metrics" =>
                  /\ OutcomesUnder(t, "gateway") = <<mine>>
                  /\ \A k \in 1..Len(ev) :
                        ev[k].by \in {"proxy", "ratelimit"}
                        => \E j \in (k + 1)..Len(ev) : ev[j] = mine
            /\ requests[t].path = "/metrics" =>
                  OutcomesUnder(t, "gateway") = <<>>
            /\ requests[t].forwards = 1 =>
                  /\ Len(OutcomesUnder(t, "gateway")) = 1
                  /\ Len(OutcomesUnder(t,
                            backends[requests[t].backend].Name)) = 1

(***************************************************************************)
(* Property of the rewrite for the backend (checked under SpecFW).         *)
(***************************************************************************)
\* C33: the request sent to the backend carries as X-Forwarded-Host the
\* host the caller addressed, and its Host and its URL's host and scheme
\* are those of the selected backend's target.
C33_ForwardedHostPreserved ==
    fw.pc = "outbound" =>
        /\ HeaderGet(fw.r.Header, "X-Forwarded-Host") = fw.inbound.Host
        /\ fw.r.Host = Parse(fw.rawURL).Host
        /\ fw.r.URL.Host = Parse(fw.rawURL).Host
        /\ fw.r.URL.Scheme = Parse(fw.rawURL).Scheme

(***************************************************************************)
(* Properties of the probing loop (checked under SpecPL).                  *)
(***************************************************************************)
AllTasksEnded ==
    \A i \in 1..MaxGwBackends, g \in Rounds : loop.task[i][g].pc = "idle"

TaskStarts(i, g) ==
    loop.task[i][g].pc = "idle" /\ loop'.task[i][g].pc = "probing"

\* C38: once every probe goroutine has ended, the gauge of every backend
\* name that has one equals the healthy flag the registry holds for that
\* name: 1 when healthy, 0 when not.
C38_GaugeMatchesRegistry ==
    (loop.pc = "ticking" /\ AllTasksEnded) =>
        \A n \in GaugeNames :
            LET i == FindByName(backends, n, 1) IN
            (i # 0 /\ gauge[n] # -1) =>
                gauge[n] = (IF backends[i].Healthy THEN 1 ELSE 0)

\* C32: a tick starts a goroutine for every configured backend; a goroutine
\* that is probing can always go on to write its classification, whatever
\* the other goroutines do, its write is the classification of its own
\* backend, and it ends; ticks keep coming.
C32_ProbesIsolated ==
    /\ [][ (\E i \in 1..MaxGwBackends, g \in Rounds : TaskStarts(i, g))
            => \E g \in Rounds :
                  \A i \in 1..Len(backends) : TaskStarts(i, g) ]_vars
    /\ [][ \A i \in 1..MaxGwBackends, g \in Rounds :
              ( loop.task[i][g].pc = "probing"
                /\ loop'.task[i][g].pc = "classified" )
              => /\ backends' = SetBackendHealthResult(backends,
                                    backends[i].Name,
                                    loop'.task[i][g].isHealthy)
                 /\ \A j \in 1..MaxGwBackends, h \in Rounds :
                       <<j, h>> # <<i, g>>
                       => loop'.task[j][h] = loop.task[j][h] ]_vars
    /\ \A i \in 1..MaxGwBackends, g \in Rounds :
          /\ [](loop.task[i][g].pc = "probing" => ENABLED Classify(i, g))
          /\ [](loop.task[i][g].pc = "classified" => ENABLED Mirror(i, g))
          /\ (loop.task[i][g].pc = "probing")
                ~> (loop.task[i][g].pc = "idle")
    /\ []<><<\E g \in Rounds : performHealthChecks(g)>>_vars

\* a goroutine has written "unhealthy" while another round's goroutine for
\* another backend is still probing
C32_Witness ==
    /\ loop.pc = "ticking"
    /\ \E i, j \in 1..Len(backends), g, h \in Rounds :
        /\ i # j
        /\ g # h
        /\ loop.task[i][g].pc = "probing"
        /\ loop.task[j][g].pc = "idle"
        /\ loop.task[j][h].pc = "classified"
        /\ ~loop.task[j][h].isHealthy
        /\ ~backends[j].Healthy

(***************************************************************************)
(* Properties of gw.mu and lb.mu (checked under SpecGL).                   *)
(***************************************************************************)
Holds(t, m) == gl.mu[m].writer = t \/ t \in gl.mu[m].readers

Wants(t, m) == At(t).op \in {"Lock", "RLock"} /\ At(t).on = m

\* the goroutines and the mutexes they take
LockPoints ==
    { p \in GlTasks \X {"gw", "lb"} :
        \E k \in 1..Len(Program(p[1])) :
            Program(p[1])[k] \in {Op("Lock", p[2]), Op("RLock", p[2])} }

\* some goroutine is blocked on a mutex whose holder is blocked on a mutex
\* the first one holds, or on one it holds itself
WaitCycle ==
    \E t, u \in GlTasks, m, n \in {"gw", "lb"} :
        /\ Wants(t, m) /\ Holds(u, m)
        /\ Wants(u, n) /\ Holds(t, n)

HealthyCount == Len(getHealthyBackendsLocked(backends))

Selected(i) ==
    call.op = "NextBackend" /\ call.ret.kind = "backend" /\ call.ret.idx = i

\* C35: under round_robin with fixed flags, every healthy entry is selected
\* again and again, and never more than 2*(N-1) selections of other entries
\* separate two selections of the same entry (N the number of healthy
\* entries), the reset of the cursor included.
C35_RoundRobinFair ==
    /\ [](\A i \in 1..Len(backends) :
            backends[i].Healthy => gap[i] <= 2 * (HealthyCount - 1))
    /\ \A i \in 1..MaxBackends :
          []<>((i \in 1..Len(backends) /\ backends[i].Healthy) => Selected(i))

\* right after the reset an entry has waited for longer than a rotation
C35_Witness ==
    /\ call.op = "NextBackend"
    /\ currentIndex \in 0..LowTop
    /\ \E i \in 1..Len(backends) :
        /\ backends[i].Healthy
        /\ gap[i] > HealthyCount - 1
        /\ gap[i] <= 2 * (HealthyCount - 1)

====
